---- MODULE Spec2Model ----
(***************************************************************************)
(* State-machine model of the AdvancedEscrow ink! contract                 *)
(* (contracts/escrow/src/lib.rs).  Every #[ink(message)] is one action     *)
(* that models the whole handler: its checks in source order, its storage  *)
(* writes, its value transfer, its audit entry and its event.  The Result  *)
(* a message returns is the value of its <message>_check operator: "Ok" or *)
(* the name of the Error.  A message that returns Err leaves the storage   *)
(* as it was.                                                              *)
(***************************************************************************)
EXTENDS Integers, Sequences, FiniteSets, TLC

VARIABLES
    escrows,            \* Mapping<u64, EscrowData>
    escrow_count,       \* u64
    multi_sig_configs,  \* Mapping<u64, MultiSigConfig>
    signatures,         \* Mapping<(u64, ApprovalType, AccountId), bool>: the keys holding true
    signature_counts,   \* Mapping<(u64, ApprovalType), u8>
    documents,          \* Mapping<u64, Vec<DocumentHash>>
    conditions,         \* Mapping<u64, Vec<Condition>>
    condition_counters, \* Mapping<u64, u64>
    disputes,           \* Mapping<u64, DisputeInfo>
    audit_logs,         \* Mapping<u64, Vec<AuditEntry>>
    events,             \* env().emit_event: how often each event was emitted with each
                        \* escrow_id topic (the order of emission is not kept)
    admin,              \* AccountId
    balance,            \* the contract account's balance (host ledger)
    transfers,          \* host ledger: the transfers out of the contract made for each escrow
    now,                \* env().block_timestamp()
    before_dispute      \* history, not storage: the record of each escrow just before
                        \* its latest successful raise_dispute

vars == <<escrows, escrow_count, multi_sig_configs, signatures, signature_counts,
          documents, conditions, condition_counters, disputes, audit_logs,
          events, admin, balance, transfers, now>>

---------------------------------------------------------------------------
(* Bounds of the model *)

\* escrows created at most
MaxEscrows == 2
\* successful state-changing messages per escrow (the length of its audit log)
MaxAudit == 3
\* successful messages of a custody scenario, all escrows together
MaxCustody == 6
\* largest value attached to one deposit
MaxTransfer == 2
\* largest block timestamp
MaxTime == 1
\* documents uploaded per escrow at most
MaxDocs == 1
\* conditions added per escrow at most
MaxConditions == 1

---------------------------------------------------------------------------
(* Types and inputs *)

Accounts == {"alice", "bob", "charlie"}

\* The account that deploys the contract: Self::env().caller() in new().
Deployer == "alice"

EscrowStatus == {"Created", "Funded", "Active", "Released", "Refunded", "Disputed", "Cancelled"}

ApprovalType == {"Release", "Refund", "EmergencyOverride"}

Error == {"EscrowNotFound", "Unauthorized", "InvalidStatus", "InsufficientFunds",
          "ConditionsNotMet", "SignatureThresholdNotMet", "AlreadySigned",
          "DocumentNotFound", "DisputeActive", "TimeLockActive",
          "InvalidConfiguration", "EscrowAlreadyFunded", "ParticipantNotFound"}

\* Option<T>: None is the empty sequence, Some(v) the one-element sequence.
None == <<>>
Some(v) == <<v>>

Hashes == {"h1", "h2"}

\* Vec::contains
Contains(seq, x) == \E i \in 1..Len(seq) : seq[i] = x

\* Mapping::get(key).unwrap_or(default)
GetOr(map, key, default) == IF key \in DOMAIN map THEN map[key] ELSE default

\* Mapping::insert(key, value)
Insert(map, key, value) == [k \in (DOMAIN map) \cup {key} |-> IF k = key THEN value ELSE map[k]]

---------------------------------------------------------------------------
(* Helpers of the contract *)

\* env().transfer(to, value): the host moves the value out of the contract
\* account, and rejects the transfer when the account does not hold it.
transfer_ok(value) == balance >= value

\* check_all_conditions_met that wants at least one condition: false for an
\* empty list.
check_all_conditions_met_nonempty(escrow_id) ==
    LET conds == GetOr(conditions, escrow_id, <<>>)
    IN  IF Len(conds) = 0 THEN FALSE
        ELSE \A i \in 1..Len(conds) : conds[i].met

\* check_all_conditions_met: true for an empty list, else all(|c| c.met)
check_all_conditions_met(escrow_id) ==
    LET conds == GetOr(conditions, escrow_id, <<>>)
    IN  IF Len(conds) = 0 THEN TRUE
        ELSE \A i \in 1..Len(conds) : conds[i].met

\* get_signature_count
get_signature_count(escrow_id, approval_type) ==
    GetOr(signature_counts, <<escrow_id, approval_type>>, 0)

\* check_signature_threshold over the signatures of every approval type
\* together.
check_signature_threshold_any_type(escrow_id, approval_type) ==
    get_signature_count(escrow_id, "Release") + get_signature_count(escrow_id, "Refund")
      + get_signature_count(escrow_id, "EmergencyOverride")
        >= multi_sig_configs[escrow_id].required_signatures

\* check_signature_threshold: count >= config.required_signatures
check_signature_threshold(escrow_id, approval_type) ==
    get_signature_count(escrow_id, approval_type)
        >= multi_sig_configs[escrow_id].required_signatures

\* The dispute of the escrow exists and is not resolved.
dispute_unresolved(escrow_id) ==
    escrow_id \in DOMAIN disputes /\ ~disputes[escrow_id].resolved

\* add_audit_entry without the read of the stored log: the new entry replaces
\* the log instead of extending it.
add_audit_entry_latest_only(escrow_id, actor, action) ==
    Insert(audit_logs, escrow_id, <<[actor |-> actor, action |-> action]>>)

\* add_audit_entry: get(..).unwrap_or_default(), push, insert
add_audit_entry(escrow_id, actor, action) ==
    Insert(audit_logs, escrow_id,
           Append(GetOr(audit_logs, escrow_id, <<>>), [actor |-> actor, action |-> action]))

\* emit_event that reports each event of an escrow once: a repetition of the
\* same event for the same escrow is not emitted.
emit_event_once(event, escrow_id) ==
    Insert(events, [event |-> event, escrow_id |-> escrow_id], 1)

\* env().emit_event(Event { escrow_id, .. }): the event and its escrow_id topic
emit_event(event, escrow_id) ==
    LET e == [event |-> event, escrow_id |-> escrow_id]
    IN  Insert(events, e, GetOr(events, e, 0) + 1)

---------------------------------------------------------------------------
(* Init: the storage after new() *)

Init ==
    /\ escrows = <<>>
    /\ escrow_count = 0
    /\ multi_sig_configs = <<>>
    /\ signatures = {}
    /\ signature_counts = <<>>
    /\ documents = <<>>
    /\ conditions = <<>>
    /\ condition_counters = <<>>
    /\ disputes = <<>>
    /\ audit_logs = <<>>
    /\ events = <<>>
    /\ admin = Deployer
    /\ balance = 0
    /\ transfers = <<>>
    /\ now = 0
    /\ before_dispute = <<>>

\* A message that returns Err(e) before its first write: nothing changes.
\* (resolve_dispute has a lookup after a write, modelled in its action.)
Fail(e) == UNCHANGED vars

---------------------------------------------------------------------------
(* create_escrow_advanced *)

\* create_escrow_advanced_check with >= in place of > in its second
\* comparison: a threshold equal to the number of participants is refused.
create_escrow_advanced_check_strict(participants, required_signatures) ==
    IF required_signatures = 0 \/ Len(participants) = 0 THEN "InvalidConfiguration"
    ELSE IF required_signatures >= Len(participants) THEN "InvalidConfiguration"
    ELSE "Ok"

create_escrow_advanced_check(participants, required_signatures) ==
    IF required_signatures = 0 \/ Len(participants) = 0 THEN "InvalidConfiguration"
    ELSE IF required_signatures > Len(participants) THEN "InvalidConfiguration"
    ELSE "Ok"

\* create_escrow_advanced with the id read before escrow_count is
\* incremented: the ids start at 0.
create_escrow_advanced_id_first(caller, amount, buyer, seller, participants, required_signatures, release_time_lock) ==
    LET r == create_escrow_advanced_check(participants, required_signatures)
        escrow_id == escrow_count
    IN  IF r # "Ok" THEN Fail(r)
        ELSE /\ escrow_count' = escrow_count + 1
             /\ escrows' = Insert(escrows, escrow_id,
                    [buyer |-> buyer, seller |-> seller, amount |-> amount,
                     deposited_amount |-> 0, status |-> "Created",
                     release_time_lock |-> release_time_lock,
                     participants |-> participants])
             /\ multi_sig_configs' = Insert(multi_sig_configs, escrow_id,
                    [required_signatures |-> required_signatures, signers |-> participants])
             /\ documents' = Insert(documents, escrow_id, <<>>)
             /\ conditions' = Insert(conditions, escrow_id, <<>>)
             /\ condition_counters' = Insert(condition_counters, escrow_id, 0)
             /\ audit_logs' = Insert(audit_logs, escrow_id,
                    <<[actor |-> caller, action |-> "EscrowCreated"]>>)
             /\ events' = emit_event("EscrowCreated", escrow_id)
             /\ transfers' = Insert(transfers, escrow_id, <<>>)
             /\ UNCHANGED <<signatures, signature_counts, disputes, admin, balance, now>>

create_escrow_advanced(caller, amount, buyer, seller, participants, required_signatures, release_time_lock) ==
    LET r == create_escrow_advanced_check(participants, required_signatures)
        escrow_id == escrow_count + 1
    IN  IF r # "Ok" THEN Fail(r)
        ELSE /\ escrow_count' = escrow_id
             /\ escrows' = Insert(escrows, escrow_id,
                    [buyer |-> buyer, seller |-> seller, amount |-> amount,
                     deposited_amount |-> 0, status |-> "Created",
                     release_time_lock |-> release_time_lock,
                     participants |-> participants])
             /\ multi_sig_configs' = Insert(multi_sig_configs, escrow_id,
                    [required_signatures |-> required_signatures, signers |-> participants])
             /\ documents' = Insert(documents, escrow_id, <<>>)
             /\ conditions' = Insert(conditions, escrow_id, <<>>)
             /\ condition_counters' = Insert(condition_counters, escrow_id, 0)
             /\ audit_logs' = Insert(audit_logs, escrow_id,
                    <<[actor |-> caller, action |-> "EscrowCreated"]>>)
             /\ events' = emit_event("EscrowCreated", escrow_id)
             /\ transfers' = Insert(transfers, escrow_id, <<>>)
             /\ UNCHANGED <<signatures, signature_counts, disputes, admin, balance, now>>

---------------------------------------------------------------------------
(* deposit_funds (payable) *)

\* deposit_funds_check without the check of the status: what the message
\* would answer if it accepted a deposit in every status.
deposit_funds_check_any_status(escrow_id) ==
    IF escrow_id \notin DOMAIN escrows THEN "EscrowNotFound"
    ELSE "Ok"

deposit_funds_check(escrow_id) ==
    IF escrow_id \notin DOMAIN escrows THEN "EscrowNotFound"
    ELSE IF escrows[escrow_id].status # "Created" /\ escrows[escrow_id].status # "Funded"
         THEN "InvalidStatus"
    ELSE "Ok"

\* deposit_funds with > in place of >= in the comparison with the agreed
\* amount: an escrow funded to exactly its amount stays Funded.
deposit_funds_above_amount(caller, escrow_id, transferred) ==
    LET r == deposit_funds_check(escrow_id)
    IN  IF r # "Ok" THEN Fail(r)
        ELSE LET escrow == escrows[escrow_id]
                 deposited == escrow.deposited_amount + transferred
                 status == IF deposited > escrow.amount THEN "Active" ELSE "Funded"
             IN  /\ escrows' = Insert(escrows, escrow_id,
                        [escrow EXCEPT !.deposited_amount = deposited, !.status = status])
                 /\ balance' = balance + transferred
                 /\ audit_logs' = add_audit_entry(escrow_id, caller, "FundsDeposited")
                 /\ events' = emit_event("FundsDeposited", escrow_id)
                 /\ UNCHANGED <<escrow_count, multi_sig_configs, signatures, signature_counts,
                                documents, conditions, condition_counters, disputes,
                                admin, transfers, now>>

deposit_funds(caller, escrow_id, transferred) ==
    LET r == deposit_funds_check(escrow_id)
    IN  IF r # "Ok" THEN Fail(r)
        ELSE LET escrow == escrows[escrow_id]
                 deposited == escrow.deposited_amount + transferred
                 status == IF deposited >= escrow.amount THEN "Active" ELSE "Funded"
             IN  /\ escrows' = Insert(escrows, escrow_id,
                        [escrow EXCEPT !.deposited_amount = deposited, !.status = status])
                 /\ balance' = balance + transferred
                 /\ audit_logs' = add_audit_entry(escrow_id, caller, "FundsDeposited")
                 /\ events' = emit_event("FundsDeposited", escrow_id)
                 /\ UNCHANGED <<escrow_count, multi_sig_configs, signatures, signature_counts,
                                documents, conditions, condition_counters, disputes,
                                admin, transfers, now>>

---------------------------------------------------------------------------
(* release_funds *)

\* release_funds with the signature threshold checked before the time-lock
\* and the conditions.
release_funds_check_threshold_first(escrow_id) ==
    IF escrow_id \notin DOMAIN escrows THEN "EscrowNotFound"
    ELSE IF escrows[escrow_id].status # "Active" THEN "InvalidStatus"
    ELSE IF dispute_unresolved(escrow_id) THEN "DisputeActive"
    ELSE IF ~check_signature_threshold(escrow_id, "Release") THEN "SignatureThresholdNotMet"
    ELSE IF /\ escrows[escrow_id].release_time_lock # None
            /\ now < escrows[escrow_id].release_time_lock[1] THEN "TimeLockActive"
    ELSE IF ~check_all_conditions_met(escrow_id) THEN "ConditionsNotMet"
    ELSE IF ~transfer_ok(escrows[escrow_id].deposited_amount) THEN "InsufficientFunds"
    ELSE "Ok"

release_funds_check(escrow_id) ==
    IF escrow_id \notin DOMAIN escrows THEN "EscrowNotFound"
    ELSE IF escrows[escrow_id].status # "Active" THEN "InvalidStatus"
    ELSE IF dispute_unresolved(escrow_id) THEN "DisputeActive"
    ELSE IF /\ escrows[escrow_id].release_time_lock # None
            /\ now < escrows[escrow_id].release_time_lock[1] THEN "TimeLockActive"
    ELSE IF ~check_all_conditions_met(escrow_id) THEN "ConditionsNotMet"
    ELSE IF ~check_signature_threshold(escrow_id, "Release") THEN "SignatureThresholdNotMet"
    ELSE IF ~transfer_ok(escrows[escrow_id].deposited_amount) THEN "InsufficientFunds"
    ELSE "Ok"

\* Payout that transfers the agreed amount instead of the deposited_amount:
\* the excess of an over-funded escrow stays in the contract.
Payout_agreed_amount(caller, escrow_id, recipient, status, action) ==
    LET escrow == escrows[escrow_id]
    IN  /\ balance' = balance - escrow.amount
        /\ transfers' = Insert(transfers, escrow_id,
               Append(GetOr(transfers, escrow_id, <<>>),
                      [to |-> recipient, value |-> escrow.amount]))
        /\ escrows' = Insert(escrows, escrow_id, [escrow EXCEPT !.status = status])
        /\ audit_logs' = add_audit_entry(escrow_id, caller, action)
        /\ events' = emit_event(action, escrow_id)
        /\ UNCHANGED <<escrow_count, multi_sig_configs, signatures, signature_counts,
                       documents, conditions, condition_counters, disputes, admin, now>>

\* The payout shared by release_funds, refund_funds and emergency_override:
\* transfer of deposited_amount to the recipient, status update, audit entry.
Payout(caller, escrow_id, recipient, status, action) ==
    LET escrow == escrows[escrow_id]
    IN  /\ balance' = balance - escrow.deposited_amount
        /\ transfers' = Insert(transfers, escrow_id,
               Append(GetOr(transfers, escrow_id, <<>>),
                      [to |-> recipient, value |-> escrow.deposited_amount]))
        /\ escrows' = Insert(escrows, escrow_id, [escrow EXCEPT !.status = status])
        /\ audit_logs' = add_audit_entry(escrow_id, caller, action)
        /\ events' = emit_event(action, escrow_id)
        /\ UNCHANGED <<escrow_count, multi_sig_configs, signatures, signature_counts,
                       documents, conditions, condition_counters, disputes, admin, now>>

release_funds(caller, escrow_id) ==
    LET r == release_funds_check(escrow_id)
    IN  IF r # "Ok" THEN Fail(r)
        ELSE Payout(caller, escrow_id, escrows[escrow_id].seller, "Released", "FundsReleased")

---------------------------------------------------------------------------
(* refund_funds *)

\* refund_funds_check with the time-lock and condition checks of
\* release_funds: what the message would answer if a refund were gated the
\* way a release is.
refund_funds_check_gated(escrow_id) ==
    IF escrow_id \notin DOMAIN escrows THEN "EscrowNotFound"
    ELSE IF escrows[escrow_id].status # "Active" /\ escrows[escrow_id].status # "Funded"
         THEN "InvalidStatus"
    ELSE IF /\ escrows[escrow_id].release_time_lock # None
            /\ now < escrows[escrow_id].release_time_lock[1] THEN "TimeLockActive"
    ELSE IF ~check_all_conditions_met(escrow_id) THEN "ConditionsNotMet"
    ELSE IF ~check_signature_threshold(escrow_id, "Refund") THEN "SignatureThresholdNotMet"
    ELSE IF ~transfer_ok(escrows[escrow_id].deposited_amount) THEN "InsufficientFunds"
    ELSE "Ok"

refund_funds_check(escrow_id) ==
    IF escrow_id \notin DOMAIN escrows THEN "EscrowNotFound"
    ELSE IF escrows[escrow_id].status # "Active" /\ escrows[escrow_id].status # "Funded"
         THEN "InvalidStatus"
    ELSE IF ~check_signature_threshold(escrow_id, "Refund") THEN "SignatureThresholdNotMet"
    ELSE IF ~transfer_ok(escrows[escrow_id].deposited_amount) THEN "InsufficientFunds"
    ELSE "Ok"

refund_funds(caller, escrow_id) ==
    LET r == refund_funds_check(escrow_id)
    IN  IF r # "Ok" THEN Fail(r)
        ELSE Payout(caller, escrow_id, escrows[escrow_id].buyer, "Refunded", "FundsRefunded")

---------------------------------------------------------------------------
(* upload_document, verify_document *)

upload_document_check(caller, escrow_id) ==
    IF escrow_id \notin DOMAIN escrows THEN "EscrowNotFound"
    ELSE IF /\ ~Contains(escrows[escrow_id].participants, caller)
            /\ caller # escrows[escrow_id].buyer
            /\ caller # escrows[escrow_id].seller THEN "Unauthorized"
    ELSE "Ok"

upload_document(caller, escrow_id, document_hash) ==
    LET r == upload_document_check(caller, escrow_id)
        docs == GetOr(documents, escrow_id, <<>>)
    IN  IF r # "Ok" THEN Fail(r)
        ELSE /\ documents' = Insert(documents, escrow_id,
                    Append(docs, [hash |-> document_hash, uploaded_by |-> caller,
                                  verified |-> FALSE]))
             /\ audit_logs' = add_audit_entry(escrow_id, caller, "DocumentUploaded")
             /\ events' = emit_event("DocumentUploaded", escrow_id)
             /\ UNCHANGED <<escrows, escrow_count, multi_sig_configs, signatures,
                            signature_counts, conditions, condition_counters, disputes,
                            admin, balance, transfers, now>>

\* Index of the first document with the hash, 0 when there is none
\* (the iter_mut loop with its break).
FirstDoc(docs, document_hash) ==
    IF \E i \in 1..Len(docs) : docs[i].hash = document_hash
    THEN CHOOSE i \in 1..Len(docs) :
            /\ docs[i].hash = document_hash
            /\ \A j \in 1..(i - 1) : docs[j].hash # document_hash
    ELSE 0

\* verify_document with the authorisation of upload_document: the buyer and
\* the seller may verify without being participants.
verify_document_check_as_upload(caller, escrow_id, document_hash) ==
    IF escrow_id \notin DOMAIN escrows THEN "EscrowNotFound"
    ELSE IF upload_document_check(caller, escrow_id) # "Ok" THEN "Unauthorized"
    ELSE IF escrow_id \notin DOMAIN documents THEN "DocumentNotFound"
    ELSE IF FirstDoc(documents[escrow_id], document_hash) = 0 THEN "DocumentNotFound"
    ELSE "Ok"

verify_document_check(caller, escrow_id, document_hash) ==
    IF escrow_id \notin DOMAIN escrows THEN "EscrowNotFound"
    ELSE IF ~Contains(escrows[escrow_id].participants, caller) THEN "Unauthorized"
    ELSE IF escrow_id \notin DOMAIN documents THEN "DocumentNotFound"
    ELSE IF FirstDoc(documents[escrow_id], document_hash) = 0 THEN "DocumentNotFound"
    ELSE "Ok"

verify_document(caller, escrow_id, document_hash) ==
    LET r == verify_document_check(caller, escrow_id, document_hash)
    IN  IF r # "Ok" THEN Fail(r)
        ELSE LET docs == documents[escrow_id]
                 i == FirstDoc(docs, document_hash)
             IN  /\ documents' = Insert(documents, escrow_id,
                        [docs EXCEPT ![i].verified = TRUE])
                 /\ audit_logs' = add_audit_entry(escrow_id, caller, "DocumentVerified")
                 /\ events' = emit_event("DocumentVerified", escrow_id)
                 /\ UNCHANGED <<escrows, escrow_count, multi_sig_configs, signatures,
                                signature_counts, conditions, condition_counters, disputes,
                                admin, balance, transfers, now>>

---------------------------------------------------------------------------
(* add_condition, mark_condition_met *)

add_condition_check(caller, escrow_id) ==
    IF escrow_id \notin DOMAIN escrows THEN "EscrowNotFound"
    ELSE IF caller # escrows[escrow_id].buyer /\ caller # escrows[escrow_id].seller
         THEN "Unauthorized"
    ELSE "Ok"

\* add_condition with one counter for all the escrows instead of one for each:
\* the next id is one more than the largest id handed out so far.
add_condition_shared_counter(caller, escrow_id) ==
    LET r == add_condition_check(caller, escrow_id)
        used == {condition_counters[id] : id \in DOMAIN condition_counters} \cup {0}
        counter == (CHOOSE c \in used : \A d \in used : d <= c) + 1
        conds == GetOr(conditions, escrow_id, <<>>)
    IN  IF r # "Ok" THEN Fail(r)
        ELSE /\ conditions' = Insert(conditions, escrow_id,
                    Append(conds, [id |-> counter, met |-> FALSE,
                                   verified_by |-> None, verified_at |-> None]))
             /\ condition_counters' = Insert(condition_counters, escrow_id, counter)
             /\ audit_logs' = add_audit_entry(escrow_id, caller, "ConditionAdded")
             /\ events' = emit_event("ConditionAdded", escrow_id)
             /\ UNCHANGED <<escrows, escrow_count, multi_sig_configs, signatures,
                            signature_counts, documents, disputes, admin, balance,
                            transfers, now>>

add_condition(caller, escrow_id) ==
    LET r == add_condition_check(caller, escrow_id)
        counter == GetOr(condition_counters, escrow_id, 0) + 1
        conds == GetOr(conditions, escrow_id, <<>>)
    IN  IF r # "Ok" THEN Fail(r)
        ELSE /\ conditions' = Insert(conditions, escrow_id,
                    Append(conds, [id |-> counter, met |-> FALSE,
                                   verified_by |-> None, verified_at |-> None]))
             /\ condition_counters' = Insert(condition_counters, escrow_id, counter)
             /\ audit_logs' = add_audit_entry(escrow_id, caller, "ConditionAdded")
             /\ events' = emit_event("ConditionAdded", escrow_id)
             /\ UNCHANGED <<escrows, escrow_count, multi_sig_configs, signatures,
                            signature_counts, documents, disputes, admin, balance,
                            transfers, now>>

\* Index of the first condition with the id, 0 when there is none.
FirstCondition(conds, condition_id) ==
    IF \E i \in 1..Len(conds) : conds[i].id = condition_id
    THEN CHOOSE i \in 1..Len(conds) :
            /\ conds[i].id = condition_id
            /\ \A j \in 1..(i - 1) : conds[j].id # condition_id
    ELSE 0

mark_condition_met_check(caller, escrow_id, condition_id) ==
    IF escrow_id \notin DOMAIN escrows THEN "EscrowNotFound"
    ELSE IF ~Contains(escrows[escrow_id].participants, caller) THEN "Unauthorized"
    ELSE IF FirstCondition(GetOr(conditions, escrow_id, <<>>), condition_id) = 0
         THEN "EscrowNotFound"
    ELSE "Ok"

\* mark_condition_met as a switch: marking a condition that is met makes it
\* unmet again.
mark_condition_met_toggles(caller, escrow_id, condition_id) ==
    LET r == mark_condition_met_check(caller, escrow_id, condition_id)
    IN  IF r # "Ok" THEN Fail(r)
        ELSE LET conds == conditions[escrow_id]
                 i == FirstCondition(conds, condition_id)
             IN  /\ conditions' = Insert(conditions, escrow_id,
                        [conds EXCEPT ![i].met = ~conds[i].met,
                                      ![i].verified_by = Some(caller),
                                      ![i].verified_at = Some(now)])
                 /\ audit_logs' = add_audit_entry(escrow_id, caller, "ConditionMet")
                 /\ events' = emit_event("ConditionMet", escrow_id)
                 /\ UNCHANGED <<escrows, escrow_count, multi_sig_configs, signatures,
                                signature_counts, documents, condition_counters, disputes,
                                admin, balance, transfers, now>>

mark_condition_met(caller, escrow_id, condition_id) ==
    LET r == mark_condition_met_check(caller, escrow_id, condition_id)
    IN  IF r # "Ok" THEN Fail(r)
        ELSE LET conds == conditions[escrow_id]
                 i == FirstCondition(conds, condition_id)
             IN  /\ conditions' = Insert(conditions, escrow_id,
                        [conds EXCEPT ![i].met = TRUE,
                                      ![i].verified_by = Some(caller),
                                      ![i].verified_at = Some(now)])
                 /\ audit_logs' = add_audit_entry(escrow_id, caller, "ConditionMet")
                 /\ events' = emit_event("ConditionMet", escrow_id)
                 /\ UNCHANGED <<escrows, escrow_count, multi_sig_configs, signatures,
                                signature_counts, documents, condition_counters, disputes,
                                admin, balance, transfers, now>>

---------------------------------------------------------------------------
(* sign_approval *)

\* sign_approval_check without the lookup of the caller's earlier signature:
\* what the message would answer without its "already signed" check.
sign_approval_check_no_lookup(caller, escrow_id, approval_type) ==
    IF escrow_id \notin DOMAIN escrows THEN "EscrowNotFound"
    ELSE IF escrow_id \notin DOMAIN multi_sig_configs THEN "EscrowNotFound"
    ELSE IF ~Contains(multi_sig_configs[escrow_id].signers, caller) THEN "Unauthorized"
    ELSE "Ok"

\* sign_approval that also takes the signature of the buyer and the seller.
sign_approval_check_parties(caller, escrow_id, approval_type) ==
    IF escrow_id \notin DOMAIN escrows THEN "EscrowNotFound"
    ELSE IF escrow_id \notin DOMAIN multi_sig_configs THEN "EscrowNotFound"
    ELSE IF /\ ~Contains(multi_sig_configs[escrow_id].signers, caller)
            /\ caller # escrows[escrow_id].buyer
            /\ caller # escrows[escrow_id].seller THEN "Unauthorized"
    ELSE IF <<escrow_id, approval_type, caller>> \in signatures THEN "AlreadySigned"
    ELSE "Ok"

sign_approval_check(caller, escrow_id, approval_type) ==
    IF escrow_id \notin DOMAIN escrows THEN "EscrowNotFound"
    ELSE IF escrow_id \notin DOMAIN multi_sig_configs THEN "EscrowNotFound"
    ELSE IF ~Contains(multi_sig_configs[escrow_id].signers, caller) THEN "Unauthorized"
    ELSE IF <<escrow_id, approval_type, caller>> \in signatures THEN "AlreadySigned"
    ELSE "Ok"

\* sign_approval that counts the signature but does not record its entry:
\* what the message would do if the insert into signatures were missing.
sign_approval_count_only(caller, escrow_id, approval_type) ==
    LET r == sign_approval_check(caller, escrow_id, approval_type)
        count_key == <<escrow_id, approval_type>>
        current_count == GetOr(signature_counts, count_key, 0)
    IN  IF r # "Ok" THEN Fail(r)
        ELSE /\ signature_counts' = Insert(signature_counts, count_key, current_count + 1)
             /\ audit_logs' = add_audit_entry(escrow_id, caller, "SignatureAdded")
             /\ events' = emit_event("SignatureAdded", escrow_id)
             /\ UNCHANGED <<escrows, escrow_count, multi_sig_configs, signatures, documents,
                            conditions, condition_counters, disputes, admin, balance,
                            transfers, now>>

sign_approval(caller, escrow_id, approval_type) ==
    LET r == sign_approval_check(caller, escrow_id, approval_type)
        count_key == <<escrow_id, approval_type>>
        current_count == GetOr(signature_counts, count_key, 0)
    IN  IF r # "Ok" THEN Fail(r)
        ELSE /\ signatures' = signatures \cup {<<escrow_id, approval_type, caller>>}
             /\ signature_counts' = Insert(signature_counts, count_key, current_count + 1)
             /\ audit_logs' = add_audit_entry(escrow_id, caller, "SignatureAdded")
             /\ events' = emit_event("SignatureAdded", escrow_id)
             /\ UNCHANGED <<escrows, escrow_count, multi_sig_configs, documents, conditions,
                            condition_counters, disputes, admin, balance, transfers, now>>

---------------------------------------------------------------------------
(* raise_dispute, resolve_dispute *)

\* raise_dispute without the look at the existing dispute: a second dispute
\* replaces one that is not resolved.
raise_dispute_check_overwrites(caller, escrow_id) ==
    IF escrow_id \notin DOMAIN escrows THEN "EscrowNotFound"
    ELSE IF caller # escrows[escrow_id].buyer /\ caller # escrows[escrow_id].seller
         THEN "Unauthorized"
    ELSE "Ok"

raise_dispute_check(caller, escrow_id) ==
    IF escrow_id \notin DOMAIN escrows THEN "EscrowNotFound"
    ELSE IF caller # escrows[escrow_id].buyer /\ caller # escrows[escrow_id].seller
         THEN "Unauthorized"
    ELSE IF dispute_unresolved(escrow_id) THEN "DisputeActive"
    ELSE "Ok"

\* raise_dispute that voids the approvals collected so far for the escrow.
raise_dispute_voids_signatures(caller, escrow_id, reason) ==
    LET r == raise_dispute_check(caller, escrow_id)
    IN  IF r # "Ok" THEN Fail(r)
        ELSE /\ disputes' = Insert(disputes, escrow_id,
                    [raised_by |-> caller, reason |-> reason,
                     resolved |-> FALSE, resolution |-> None])
             /\ escrows' = Insert(escrows, escrow_id,
                    [escrows[escrow_id] EXCEPT !.status = "Disputed"])
             /\ signatures' = {sig \in signatures : sig[1] # escrow_id}
             /\ signature_counts' =
                   [key \in {k \in DOMAIN signature_counts : k[1] # escrow_id} |->
                       signature_counts[key]]
             /\ audit_logs' = add_audit_entry(escrow_id, caller, "DisputeRaised")
             /\ events' = emit_event("DisputeRaised", escrow_id)
             /\ UNCHANGED <<escrow_count, multi_sig_configs,
                            documents, conditions, condition_counters, admin, balance,
                            transfers, now>>

\* raise_dispute that records the dispute and leaves the status of the
\* escrow as it is.
raise_dispute_keeps_status(caller, escrow_id, reason) ==
    LET r == raise_dispute_check(caller, escrow_id)
    IN  IF r # "Ok" THEN Fail(r)
        ELSE /\ disputes' = Insert(disputes, escrow_id,
                    [raised_by |-> caller, reason |-> reason,
                     resolved |-> FALSE, resolution |-> None])
             /\ audit_logs' = add_audit_entry(escrow_id, caller, "DisputeRaised")
             /\ events' = emit_event("DisputeRaised", escrow_id)
             /\ UNCHANGED <<escrows, escrow_count, multi_sig_configs, signatures,
                            signature_counts, documents, conditions, condition_counters,
                            admin, balance, transfers, now>>

raise_dispute(caller, escrow_id, reason) ==
    LET r == raise_dispute_check(caller, escrow_id)
    IN  IF r # "Ok" THEN Fail(r)
        ELSE /\ disputes' = Insert(disputes, escrow_id,
                    [raised_by |-> caller, reason |-> reason,
                     resolved |-> FALSE, resolution |-> None])
             /\ escrows' = Insert(escrows, escrow_id,
                    [escrows[escrow_id] EXCEPT !.status = "Disputed"])
             /\ audit_logs' = add_audit_entry(escrow_id, caller, "DisputeRaised")
             /\ events' = emit_event("DisputeRaised", escrow_id)
             /\ UNCHANGED <<escrow_count, multi_sig_configs, signatures, signature_counts,
                            documents, conditions, condition_counters, admin, balance,
                            transfers, now>>

\* resolve_dispute that the account that raised the dispute may call as
\* well, to withdraw it.
resolve_dispute_check_raiser(caller, escrow_id) ==
    IF caller # admin /\ escrow_id \notin DOMAIN disputes THEN "Unauthorized"
    ELSE IF escrow_id \notin DOMAIN disputes THEN "EscrowNotFound"
    ELSE IF caller # admin /\ caller # disputes[escrow_id].raised_by THEN "Unauthorized"
    ELSE IF escrow_id \notin DOMAIN escrows THEN "EscrowNotFound"
    ELSE "Ok"

resolve_dispute_check(caller, escrow_id) ==
    IF caller # admin THEN "Unauthorized"
    ELSE IF escrow_id \notin DOMAIN disputes THEN "EscrowNotFound"
    ELSE IF escrow_id \notin DOMAIN escrows THEN "EscrowNotFound"
    ELSE "Ok"

\* resolve_dispute with the dispute written before the caller is compared
\* with the administrator: a call that returns Err has then marked the
\* dispute resolved.
resolve_dispute_write_first(caller, escrow_id, resolution) ==
    LET r == resolve_dispute_check(caller, escrow_id)
        resolved == [disputes[escrow_id] EXCEPT !.resolved = TRUE,
                                                !.resolution = Some(resolution)]
    IN  IF r # "Ok"
        THEN IF escrow_id \in DOMAIN disputes
             THEN /\ disputes' = Insert(disputes, escrow_id, resolved)
                  /\ UNCHANGED <<escrows, escrow_count, multi_sig_configs, signatures,
                                 signature_counts, documents, conditions,
                                 condition_counters, audit_logs, events, admin, balance,
                                 transfers, now>>
             ELSE Fail(r)
        ELSE /\ disputes' = Insert(disputes, escrow_id, resolved)
             /\ escrows' = Insert(escrows, escrow_id,
                    [escrows[escrow_id] EXCEPT !.status = "Active"])
             /\ audit_logs' = add_audit_entry(escrow_id, caller, "DisputeResolved")
             /\ events' = emit_event("DisputeResolved", escrow_id)
             /\ UNCHANGED <<escrow_count, multi_sig_configs, signatures, signature_counts,
                            documents, conditions, condition_counters, admin, balance,
                            transfers, now>>

\* resolve_dispute that also clears the signatures of the escrow: the
\* approvals collected before the dispute no longer count.
resolve_dispute_clears_signatures(caller, escrow_id, resolution) ==
    LET r == resolve_dispute_check(caller, escrow_id)
        resolved == [disputes[escrow_id] EXCEPT !.resolved = TRUE,
                                                !.resolution = Some(resolution)]
    IN  IF r # "Ok" THEN Fail(r)
        ELSE /\ disputes' = Insert(disputes, escrow_id, resolved)
             /\ escrows' = Insert(escrows, escrow_id,
                    [escrows[escrow_id] EXCEPT !.status = "Active"])
             /\ signatures' = {sig \in signatures : sig[1] # escrow_id}
             /\ signature_counts' =
                    [k \in {key \in DOMAIN signature_counts : key[1] # escrow_id}
                        |-> signature_counts[k]]
             /\ audit_logs' = add_audit_entry(escrow_id, caller, "DisputeResolved")
             /\ events' = emit_event("DisputeResolved", escrow_id)
             /\ UNCHANGED <<escrow_count, multi_sig_configs, documents, conditions,
                            condition_counters, admin, balance, transfers, now>>

\* The dispute is written (lines 784-787) before the escrow is looked up (line
\* 790): when that lookup fails the message returns Err after a write, which
\* the host reverts on chain and the off-chain test environment keeps.
resolve_dispute(caller, escrow_id, resolution) ==
    LET r == resolve_dispute_check(caller, escrow_id)
        resolved == [disputes[escrow_id] EXCEPT !.resolved = TRUE,
                                                !.resolution = Some(resolution)]
    IN  IF r # "Ok"
        THEN IF caller = admin /\ escrow_id \in DOMAIN disputes
             THEN \/ Fail(r)
                  \/ /\ disputes' = Insert(disputes, escrow_id, resolved)
                     /\ UNCHANGED <<escrows, escrow_count, multi_sig_configs, signatures,
                                    signature_counts, documents, conditions,
                                    condition_counters, audit_logs, events, admin, balance,
                                    transfers, now>>
             ELSE Fail(r)
        ELSE /\ disputes' = Insert(disputes, escrow_id, resolved)
             /\ escrows' = Insert(escrows, escrow_id,
                    [escrows[escrow_id] EXCEPT !.status = "Active"])
             /\ audit_logs' = add_audit_entry(escrow_id, caller, "DisputeResolved")
             /\ events' = emit_event("DisputeResolved", escrow_id)
             /\ UNCHANGED <<escrow_count, multi_sig_configs, signatures, signature_counts,
                            documents, conditions, condition_counters, admin, balance,
                            transfers, now>>

---------------------------------------------------------------------------
(* emergency_override *)

\* emergency_override_check without the comparison of the caller with the
\* administrator: what the message would answer without its admin check.
emergency_override_check_any_caller(caller, escrow_id) ==
    IF escrow_id \notin DOMAIN escrows THEN "EscrowNotFound"
    ELSE IF ~transfer_ok(escrows[escrow_id].deposited_amount) THEN "InsufficientFunds"
    ELSE "Ok"

emergency_override_check(caller, escrow_id) ==
    IF caller # admin THEN "Unauthorized"
    ELSE IF escrow_id \notin DOMAIN escrows THEN "EscrowNotFound"
    ELSE IF ~transfer_ok(escrows[escrow_id].deposited_amount) THEN "InsufficientFunds"
    ELSE "Ok"

\* emergency_override with the status written before the transfer: a call
\* whose transfer is rejected has then changed the status.
emergency_override_status_first(caller, escrow_id, release_to_seller) ==
    LET r == emergency_override_check(caller, escrow_id)
        status == IF release_to_seller THEN "Released" ELSE "Refunded"
    IN  IF r = "InsufficientFunds"
        THEN /\ escrows' = Insert(escrows, escrow_id,
                    [escrows[escrow_id] EXCEPT !.status = status])
             /\ UNCHANGED <<escrow_count, multi_sig_configs, signatures, signature_counts,
                            documents, conditions, condition_counters, disputes,
                            audit_logs, events, admin, balance, transfers, now>>
        ELSE IF r # "Ok" THEN Fail(r)
        ELSE Payout(caller, escrow_id,
                    IF release_to_seller THEN escrows[escrow_id].seller
                                         ELSE escrows[escrow_id].buyer,
                    status, "EmergencyOverride")

\* emergency_override that marks an escrow returned to the buyer as Cancelled.
emergency_override_cancels(caller, escrow_id, release_to_seller) ==
    LET r == emergency_override_check(caller, escrow_id)
    IN  IF r # "Ok" THEN Fail(r)
        ELSE Payout(caller, escrow_id,
                    IF release_to_seller THEN escrows[escrow_id].seller
                                         ELSE escrows[escrow_id].buyer,
                    IF release_to_seller THEN "Released" ELSE "Cancelled",
                    "EmergencyOverride")

emergency_override(caller, escrow_id, release_to_seller) ==
    LET r == emergency_override_check(caller, escrow_id)
    IN  IF r # "Ok" THEN Fail(r)
        ELSE Payout(caller, escrow_id,
                    IF release_to_seller THEN escrows[escrow_id].seller
                                         ELSE escrows[escrow_id].buyer,
                    IF release_to_seller THEN "Released" ELSE "Refunded",
                    "EmergencyOverride")

---------------------------------------------------------------------------
(* set_admin *)

\* set_admin that asks for the deployer instead of the stored administrator.
set_admin_check_deployer(caller) == IF caller # Deployer THEN "Unauthorized" ELSE "Ok"

set_admin_check(caller) == IF caller # admin THEN "Unauthorized" ELSE "Ok"

\* set_admin that also enrols the new administrator as a signer of every
\* escrow.
set_admin_enrols_signer(caller, new_admin) ==
    LET r == set_admin_check(caller)
    IN  IF r # "Ok" THEN Fail(r)
        ELSE /\ admin' = new_admin
             /\ multi_sig_configs' =
                   [id \in DOMAIN multi_sig_configs |->
                       [multi_sig_configs[id] EXCEPT
                           !.signers = Append(multi_sig_configs[id].signers, new_admin)]]
             /\ UNCHANGED <<escrows, escrow_count, signatures,
                            signature_counts, documents, conditions, condition_counters,
                            disputes, audit_logs, events, balance, transfers, now>>

set_admin(caller, new_admin) ==
    LET r == set_admin_check(caller)
    IN  IF r # "Ok" THEN Fail(r)
        ELSE /\ admin' = new_admin
             /\ UNCHANGED <<escrows, escrow_count, multi_sig_configs, signatures,
                            signature_counts, documents, conditions, condition_counters,
                            disputes, audit_logs, events, balance, transfers, now>>

---------------------------------------------------------------------------
(* The host: time passes between messages *)

Tick ==
    /\ now' = now + 1
    /\ UNCHANGED <<escrows, escrow_count, multi_sig_configs, signatures, signature_counts,
                   documents, conditions, condition_counters, disputes, audit_logs, events,
                   admin, balance, transfers>>

---------------------------------------------------------------------------
(* The environment: which messages callers send, with which arguments.     *)
(* An environment E is a record of finite input sets and of the sizes the  *)
(* growing collections are explored to; Step(E) is the next-state relation *)
(* of the contract under it.                                               *)

\* Number of entries in all the logs together.
RECURSIVE TotalUpTo(_, _)
TotalUpTo(logs, n) ==
    IF n = 0 THEN 0
    ELSE TotalUpTo(logs, n - 1) + (IF n \in DOMAIN logs THEN Len(logs[n]) ELSE 0)

Total(logs) == TotalUpTo(logs, MaxEscrows)

\* The state stays within the sizes the environment E explores.
Bounded(E) ==
    /\ escrow_count <= E.max_escrows
    /\ now <= MaxTime
    /\ \A id \in DOMAIN audit_logs : Len(audit_logs[id]) <= E.max_audit
    /\ Total(audit_logs) <= E.max_total
    /\ \A id \in DOMAIN documents : Len(documents[id]) <= MaxDocs
    /\ \A id \in DOMAIN conditions : Len(conditions[id]) <= E.max_conditions

\* The messages, each with every caller and argument the environment E offers.
Creates(E) ==
    \E caller \in E.creators, args \in E.creates :
        /\ create_escrow_advanced(caller, args.amount, args.buyer, args.seller,
               args.participants, args.required_signatures, args.release_time_lock)
        /\ Bounded(E)'
        /\ UNCHANGED before_dispute

Deposits(E) ==
    \E caller \in E.payers, escrow_id \in E.ids, transferred \in E.values :
        deposit_funds(caller, escrow_id, transferred) /\ Bounded(E)' /\ UNCHANGED before_dispute

Releases(E) ==
    \E caller \in E.payers, escrow_id \in E.ids :
        release_funds(caller, escrow_id) /\ Bounded(E)' /\ UNCHANGED before_dispute

Refunds(E) ==
    \E caller \in E.payers, escrow_id \in E.ids :
        refund_funds(caller, escrow_id) /\ Bounded(E)' /\ UNCHANGED before_dispute

Uploads(E) ==
    \E caller \in E.callers, escrow_id \in E.ids, document_hash \in E.hashes :
        upload_document(caller, escrow_id, document_hash) /\ Bounded(E)' /\ UNCHANGED before_dispute

Verifies(E) ==
    \E caller \in E.callers, escrow_id \in E.ids, document_hash \in E.hashes :
        verify_document(caller, escrow_id, document_hash) /\ Bounded(E)' /\ UNCHANGED before_dispute

AddsCondition(E) ==
    \E caller \in E.callers, escrow_id \in E.ids :
        add_condition(caller, escrow_id) /\ Bounded(E)' /\ UNCHANGED before_dispute

MarksCondition(E) ==
    \E caller \in E.callers, escrow_id \in E.ids, condition_id \in 1..(E.max_conditions + 1) :
        mark_condition_met(caller, escrow_id, condition_id) /\ Bounded(E)' /\ UNCHANGED before_dispute

Signs(E) ==
    \E caller \in E.callers, escrow_id \in E.ids, approval_type \in E.approval_types :
        sign_approval(caller, escrow_id, approval_type) /\ Bounded(E)' /\ UNCHANGED before_dispute

Raises(E) ==
    \E caller \in E.callers, escrow_id \in E.ids, reason \in E.reasons :
        /\ raise_dispute(caller, escrow_id, reason)
        /\ Bounded(E)'
        /\ before_dispute' =
                IF raise_dispute_check(caller, escrow_id) = "Ok"
                THEN Insert(before_dispute, escrow_id, escrows[escrow_id])
                ELSE before_dispute

Resolves(E) ==
    \E caller \in E.callers, escrow_id \in E.ids, resolution \in E.resolutions :
        resolve_dispute(caller, escrow_id, resolution) /\ Bounded(E)' /\ UNCHANGED before_dispute

Overrides(E) ==
    \E caller \in E.callers, escrow_id \in E.ids, release_to_seller \in BOOLEAN :
        emergency_override(caller, escrow_id, release_to_seller) /\ Bounded(E)' /\ UNCHANGED before_dispute

SetsAdmin(E) ==
    \E caller \in E.callers, new_admin \in E.new_admins :
        set_admin(caller, new_admin) /\ Bounded(E)' /\ UNCHANGED before_dispute

Ticks(E) == Tick /\ Bounded(E)' /\ UNCHANGED before_dispute

\* Every message of the contract, and the passing of time.
Step(E) ==
    \/ Creates(E) \/ Deposits(E) \/ Releases(E) \/ Refunds(E)
    \/ Uploads(E) \/ Verifies(E) \/ AddsCondition(E) \/ MarksCondition(E)
    \/ Signs(E) \/ Raises(E) \/ Resolves(E) \/ Overrides(E)
    \/ SetsAdmin(E) \/ Ticks(E)

\* The messages that move custody or change the status.
Custody(E) ==
    \/ Creates(E) \/ Deposits(E) \/ Signs(E) \/ Releases(E) \/ Refunds(E)
    \/ Raises(E) \/ Resolves(E) \/ Overrides(E)

\* create_escrow_advanced arguments.
CreateArgs(amounts, buyers, sellers, lists, thresholds, locks) ==
    [amount : amounts, buyer : buyers, seller : sellers, participants : lists,
     required_signatures : thresholds, release_time_lock : locks]

\* One escrow, followed through its life under every message: bob buys from
\* charlie, alice (the deployer) and bob are the participants.
Life ==
    [creators |-> {"bob"},
     creates |-> CreateArgs({MaxTransfer}, {"bob"}, {"charlie"},
                            {<<>>, <<"alice", "bob">>}, 0..3, {None, Some(MaxTime)}),
     payers |-> {"bob"},
     callers |-> Accounts,
     ids |-> 1..2,
     values |-> 1..MaxTransfer,
     approval_types |-> {"Release", "Refund"},
     hashes |-> {"h1"},
     reasons |-> {"reason"},
     resolutions |-> {"resolution"},
     new_admins |-> {"alice", "bob"},
     max_escrows |-> 1,
     max_audit |-> MaxAudit,
     max_conditions |-> MaxConditions,
     max_total |-> MaxAudit]

\* Two escrows under the custody messages: alice (the deployer) is the only
\* signer, bob buys from charlie.
Pair ==
    [creators |-> {"bob"},
     creates |-> CreateArgs({MaxTransfer}, {"bob"}, {"charlie"},
                            {<<"alice">>}, {1}, {None}),
     payers |-> {"bob"},
     callers |-> Accounts,
     ids |-> 1..MaxEscrows,
     values |-> {MaxTransfer},
     approval_types |-> {"Release", "Refund"},
     reasons |-> {"reason"},
     resolutions |-> {"resolution"},
     max_escrows |-> MaxEscrows,
     max_audit |-> MaxCustody,
     max_conditions |-> MaxConditions,
     max_total |-> MaxCustody]

Next == Step(Life)

Spec == Init /\ [][Next]_<<vars, before_dispute>>

NextCustody == Custody(Pair)

SpecCustody == Init /\ [][NextCustody]_<<vars, before_dispute>>

\* The messages that open an escrow: creation and deposits.
Opening(E) == Creates(E) \/ Deposits(E)

\* Escrows created by anyone, for themselves or for others (the buyer may be
\* the caller, the seller or neither), with valid and invalid
\* configurations (no participant, threshold 0, threshold above the number of
\* participants); bob deposits.
Open ==
    [creators |-> Accounts,
     creates |-> CreateArgs({MaxTransfer}, {"alice", "bob"}, {"bob", "charlie"},
                            {<<>>, <<"alice">>, <<"alice", "bob">>}, 0..3, {None}),
     payers |-> {"bob"},
     ids |-> 1..2,
     values |-> {1},
     max_escrows |-> 2,
     max_audit |-> 2,
     max_conditions |-> MaxConditions,
     max_total |-> 3]

NextOpen == Opening(Open)

SpecOpen == Init /\ [][NextOpen]_<<vars, before_dispute>>

\* The messages that fund and settle an escrow.
Settling(E) ==
    \/ Creates(E) \/ Deposits(E) \/ AddsCondition(E) \/ Signs(E)
    \/ Releases(E) \/ Refunds(E) \/ Ticks(E)

\* One escrow, with or without a time-lock, funded by anyone in one or more
\* deposits, with or without a condition that is never met; alice is its only
\* signer, bob buys from charlie.
Settle ==
    [creators |-> {"bob"},
     creates |-> CreateArgs({MaxTransfer}, {"bob"}, {"charlie"},
                            {<<"alice">>}, {1}, {None, Some(MaxTime)}),
     payers |-> Accounts,
     callers |-> {"alice", "bob"},
     ids |-> {1},
     values |-> 1..MaxTransfer,
     approval_types |-> {"Release", "Refund"},
     max_escrows |-> 1,
     max_audit |-> 5,
     max_conditions |-> MaxConditions,
     max_total |-> 5]

NextSettle == Settling(Settle)

SpecSettle == Init /\ [][NextSettle]_<<vars, before_dispute>>

\* One escrow of one shape under every message, by every caller: bob buys from
\* charlie, alice (the deployer) and bob are the participants, one signature
\* is required, deposits fund it at once.
Whole ==
    [creators |-> {"bob"},
     creates |-> CreateArgs({MaxTransfer}, {"bob"}, {"charlie"},
                            {<<"alice", "bob">>}, {1}, {None}),
     payers |-> {"bob"},
     callers |-> Accounts,
     ids |-> {1},
     values |-> {MaxTransfer},
     approval_types |-> {"Release", "Refund"},
     hashes |-> {"h1"},
     reasons |-> {"reason"},
     resolutions |-> {"resolution"},
     new_admins |-> {"alice", "bob"},
     max_escrows |-> 1,
     max_audit |-> MaxAudit,
     max_conditions |-> MaxConditions,
     max_total |-> MaxAudit]

NextWhole == Step(Whole)

SpecWhole == Init /\ [][NextWhole]_<<vars, before_dispute>>

\* The messages that record evidence: documents and conditions.
Recording(E) ==
    \/ Creates(E) \/ Uploads(E) \/ Verifies(E)
    \/ AddsCondition(E) \/ MarksCondition(E) \/ Ticks(E)

\* Two escrows of two shapes with their documents and conditions: bob buys
\* from charlie; either bob is the only participant (alice is a stranger) or
\* alice and bob are the participants (alice is a participant who is neither
\* buyer nor seller, charlie a seller who is no participant).
Evidence ==
    [creators |-> {"bob"},
     creates |-> CreateArgs({MaxTransfer}, {"bob"}, {"charlie"},
                            {<<"bob">>, <<"alice", "bob">>}, {1}, {None}),
     callers |-> Accounts,
     ids |-> 1..2,
     hashes |-> Hashes,
     max_escrows |-> 2,
     max_audit |-> 4,
     max_conditions |-> MaxConditions + 2,
     max_total |-> 5]

NextEvidence == Recording(Evidence)

SpecEvidence == Init /\ [][NextEvidence]_<<vars, before_dispute>>

\* Up to two escrows of one shape under every message, far enough for each
\* message to succeed on the first: bob buys from charlie, alice (the deployer) and bob are the
\* participants, one signature is required, a deposit funds it at once.
Trail ==
    [creators |-> {"bob"},
     creates |-> CreateArgs({MaxTransfer}, {"bob"}, {"charlie"},
                            {<<"alice", "bob">>}, {1}, {None}),
     payers |-> {"bob"},
     callers |-> Accounts,
     ids |-> 1..2,
     values |-> {MaxTransfer},
     approval_types |-> {"Release", "Refund"},
     hashes |-> {"h1"},
     reasons |-> {"reason"},
     resolutions |-> {"resolution"},
     new_admins |-> {"alice", "bob"},
     max_escrows |-> 2,
     max_audit |-> 4,
     max_conditions |-> MaxConditions,
     max_total |-> 4]

NextTrail == Step(Trail)

SpecTrail == Init /\ [][NextTrail]_<<vars, before_dispute>>

\* The messages that collect approvals and act on them.
Approving(E) ==
    \/ Creates(E) \/ Deposits(E) \/ Signs(E) \/ Releases(E) \/ Refunds(E)
    \/ Overrides(E)

\* One escrow, bob buying from charlie, with one of three signer lists: the
\* buyer alone (the deployer and the seller are no signers), the deployer and
\* the seller (the buyer is no signer), or the deployer listed twice; one or
\* two signatures are required, and every approval type is signed.
Approvals ==
    [creators |-> {"bob"},
     creates |-> CreateArgs({MaxTransfer}, {"bob"}, {"charlie"},
                            {<<"bob">>, <<"alice", "charlie">>, <<"alice", "alice">>},
                            1..2, {None}),
     payers |-> {"bob"},
     callers |-> Accounts,
     ids |-> {1},
     values |-> {MaxTransfer},
     approval_types |-> ApprovalType,
     max_escrows |-> 1,
     max_audit |-> 6,
     max_conditions |-> MaxConditions,
     max_total |-> 6]

NextApprovals == Approving(Approvals)

SpecApprovals == Init /\ [][NextApprovals]_<<vars, before_dispute>>

---------------------------------------------------------------------------
(* Claims *)

Terminal == {"Released", "Refunded"}

\* Total value of a sequence of transfers.
RECURSIVE SumValues(_)
SumValues(seq) == IF seq = <<>> THEN 0 ELSE seq[1].value + SumValues(Tail(seq))

\* Value transferred out of the contract for the escrow.
PaidOut(escrow_id) == SumValues(GetOr(transfers, escrow_id, <<>>))

\* The latest entry of the audit log of the escrow has this action tag.
LastAction(escrow_id, action) ==
    /\ escrow_id \in DOMAIN audit_logs
    /\ Len(audit_logs[escrow_id]) > 0
    /\ audit_logs[escrow_id][Len(audit_logs[escrow_id])].action = action

\* The time-lock of the escrow is absent or expired.
TimeLockOpen(escrow_id) ==
    \/ escrows[escrow_id].release_time_lock = None
    \/ now >= escrows[escrow_id].release_time_lock[1]

\* Every condition of the escrow is met.
ConditionsMet(escrow_id) ==
    \A i \in 1..Len(conditions[escrow_id]) : conditions[escrow_id][i].met

\* C1: custody of an escrow is paid out at most once: the value transferred
\* out of the contract for an escrow by release_funds, refund_funds and
\* emergency_override never exceeds its deposited_amount (so at most one of
\* the three ever moves its custody).
C1_PaidOutWithinDeposit ==
    \A id \in DOMAIN escrows : PaidOut(id) <= escrows[id].deposited_amount

\* C2: release_funds on an existing escrow succeeds if and only if the status
\* is Active, no dispute is unresolved, the time-lock is absent or expired,
\* every condition is met and the Release count reaches required_signatures;
\* when exactly one clause is violated the call returns that clause's error.
C2_ReleaseIffClauses ==
    \A id \in DOMAIN escrows :
        LET a == escrows[id].status = "Active"
            d == ~dispute_unresolved(id)
            t == TimeLockOpen(id)
            c == ConditionsMet(id)
            g == check_signature_threshold(id, "Release")
            r == release_funds_check(id)
        IN  /\ (r = "Ok") <=> (a /\ d /\ t /\ c /\ g)
            /\ (~a /\ d /\ t /\ c /\ g) => r = "InvalidStatus"
            /\ (a /\ ~d /\ t /\ c /\ g) => r = "DisputeActive"
            /\ (a /\ d /\ ~t /\ c /\ g) => r = "TimeLockActive"
            /\ (a /\ d /\ t /\ ~c /\ g) => r = "ConditionsNotMet"
            /\ (a /\ d /\ t /\ c /\ ~g) => r = "SignatureThresholdNotMet"

\* C3: every state-mutating message sent to an escrow whose status is
\* Released or Refunded returns InvalidStatus, whoever the caller and whatever
\* the arguments.
C3_TerminalRejectsAll ==
    \A id \in DOMAIN escrows :
        escrows[id].status \in Terminal =>
            \A caller \in Accounts :
                /\ deposit_funds_check(id) = "InvalidStatus"
                /\ release_funds_check(id) = "InvalidStatus"
                /\ refund_funds_check(id) = "InvalidStatus"
                /\ upload_document_check(caller, id) = "InvalidStatus"
                /\ \A h \in Hashes : verify_document_check(caller, id, h) = "InvalidStatus"
                /\ add_condition_check(caller, id) = "InvalidStatus"
                /\ \A n \in 1..(MaxConditions + 1) :
                        mark_condition_met_check(caller, id, n) = "InvalidStatus"
                /\ \A ty \in ApprovalType : sign_approval_check(caller, id, ty) = "InvalidStatus"
                /\ raise_dispute_check(caller, id) = "InvalidStatus"
                /\ resolve_dispute_check(caller, id) = "InvalidStatus"
                /\ emergency_override_check(caller, id) = "InvalidStatus"

\* C4: Released and Refunded are terminal: a step that starts with an escrow
\* Released or Refunded leaves its status as it is.
C4_TerminalStatusStays ==
    [][\A id \in DOMAIN escrows :
            escrows[id].status \in Terminal => escrows'[id].status = escrows[id].status]_vars

C6_SecondSignatureRejected ==
    /\ [](\A sig \in signatures :
            sign_approval_check(sig[3], sig[1], sig[2]) = "AlreadySigned")
    /\ [][\A sig \in signatures :
            sign_approval(sig[3], sig[1], sig[2]) =>
                UNCHANGED <<signatures, signature_counts, audit_logs>>]_vars

\* A signer has signed, and a second signature of the same kind is refused.
C6_Witness ==
    \E sig \in signatures :
        /\ LastAction(sig[1], "SignatureAdded")
        /\ sign_approval_check(sig[3], sig[1], sig[2]) = "AlreadySigned"

\* C7: for every escrow and approval type, the signature count equals the
\* number of signers whose signature entry is true, and never exceeds the
\* length of the signers list.
C7_CountMatchesSignatures ==
    \A id \in DOMAIN escrows, ty \in ApprovalType :
        /\ get_signature_count(id, ty)
              = Cardinality({a \in Accounts : <<id, ty, a>> \in signatures})
        /\ get_signature_count(id, ty) <= Len(multi_sig_configs[id].signers)
        /\ \A a \in Accounts :
              <<id, ty, a>> \in signatures => Contains(multi_sig_configs[id].signers, a)

\* Every signer of an escrow has signed its release.
C7_Witness ==
    \E id \in DOMAIN escrows :
        /\ get_signature_count(id, "Release") = 2
        /\ get_signature_count(id, "Release") = Len(multi_sig_configs[id].signers)

\* C8: an escrow whose status is Active holds at least the agreed amount.
C8_ActiveIsFunded ==
    \A id \in DOMAIN escrows :
        escrows[id].status = "Active" =>
            escrows[id].deposited_amount >= escrows[id].amount

\* C9: once raise_dispute has succeeded on an Active escrow, release_funds
\* returns DisputeActive.
C9_ReleaseAfterDispute ==
    [][\A id \in DOMAIN escrows, caller \in Accounts, reason \in {"reason"} :
            ( /\ escrows[id].status = "Active"
              /\ raise_dispute_check(caller, id) = "Ok"
              /\ raise_dispute(caller, id, reason) )
            => (release_funds_check(id) = "DisputeActive")']_vars

\* C10: an unresolved dispute does not block refund: once raise_dispute has
\* succeeded on a Funded or Active escrow whose Refund count reaches
\* required_signatures, refund_funds succeeds.
C10_RefundAfterDispute ==
    [][\A id \in DOMAIN escrows, caller \in Accounts, reason \in {"reason"} :
            ( /\ escrows[id].status \in {"Funded", "Active"}
              /\ check_signature_threshold(id, "Refund")
              /\ raise_dispute_check(caller, id) = "Ok"
              /\ raise_dispute(caller, id, reason) )
            => (refund_funds_check(id) = "Ok")']_vars

\* C11: the dispute detour does not change the funding state: when
\* resolve_dispute succeeds on an escrow whose latest successful message was
\* raise_dispute, the escrow's status and deposited_amount are again those it
\* had just before that raise_dispute.
C11_DetourKeepsFunding ==
    [][\A id \in DOMAIN escrows, caller \in Accounts, resolution \in {"resolution"} :
            ( /\ LastAction(id, "DisputeRaised")
              /\ resolve_dispute_check(caller, id) = "Ok"
              /\ resolve_dispute(caller, id, resolution) )
            => /\ escrows'[id].status = before_dispute[id].status
               /\ escrows'[id].deposited_amount = before_dispute[id].deposited_amount]_vars

\* A release, refund or emergency override has succeeded on the escrow.
HasPaidOut(escrow_id) == GetOr(transfers, escrow_id, <<>>) # <<>>

\* C12: the deposited_amount of an escrow never decreases from one state to
\* the next, and once a release, refund or emergency override has succeeded
\* on the escrow it never changes again.
C12_DepositedMonotone ==
    [][\A id \in DOMAIN escrows :
            /\ escrows'[id].deposited_amount >= escrows[id].deposited_amount
            /\ HasPaidOut(id) =>
                  escrows'[id].deposited_amount = escrows[id].deposited_amount]_vars

\* An escrow that was paid out has gone through a dispute and is Active again,
\* with its deposited_amount as it was, and refuses a further deposit.
C12_Witness ==
    \E id \in DOMAIN escrows :
        /\ HasPaidOut(id)
        /\ LastAction(id, "DisputeResolved")
        /\ escrows[id].status = "Active"
        /\ escrows[id].deposited_amount = MaxTransfer
        /\ deposit_funds_check(id) = "InvalidStatus"

\* Escrow ids a caller may name: the existing ones and one that does not exist.
AnyId == 1..(escrow_count + 1)

\* C13: a message that returns an error leaves the whole contract state as it
\* was: no step that changes the state is a step of a call whose result is an
\* Err, whatever the message, the caller and the arguments.
C13_ErrorChangesNothing ==
    [][UNCHANGED vars \/
        /\ \A args \in Life.creates :
              create_escrow_advanced_check(args.participants, args.required_signatures) # "Ok"
              => \A caller \in Accounts :
                    create_escrow_advanced(caller, args.amount, args.buyer, args.seller,
                        args.participants, args.required_signatures,
                        args.release_time_lock) => UNCHANGED vars
        /\ \A caller \in Accounts :
              set_admin_check(caller) # "Ok"
              => \A new_admin \in Accounts :
                    set_admin(caller, new_admin) => UNCHANGED vars
        /\ \A id \in AnyId :
            /\ deposit_funds_check(id) # "Ok"
               => \A caller \in Accounts, v \in 1..MaxTransfer :
                     deposit_funds(caller, id, v) => UNCHANGED vars
            /\ release_funds_check(id) # "Ok"
               => \A caller \in Accounts : release_funds(caller, id) => UNCHANGED vars
            /\ refund_funds_check(id) # "Ok"
               => \A caller \in Accounts : refund_funds(caller, id) => UNCHANGED vars
            /\ \A caller \in Accounts :
                /\ upload_document_check(caller, id) # "Ok"
                   => \A h \in Hashes : upload_document(caller, id, h) => UNCHANGED vars
                /\ \A h \in Hashes :
                      (verify_document_check(caller, id, h) # "Ok"
                            /\ verify_document(caller, id, h)) => UNCHANGED vars
                /\ (add_condition_check(caller, id) # "Ok" /\ add_condition(caller, id))
                      => UNCHANGED vars
                /\ \A n \in 1..(MaxConditions + 1) :
                      (mark_condition_met_check(caller, id, n) # "Ok"
                            /\ mark_condition_met(caller, id, n)) => UNCHANGED vars
                /\ \A ty \in ApprovalType :
                      (sign_approval_check(caller, id, ty) # "Ok"
                            /\ sign_approval(caller, id, ty)) => UNCHANGED vars
                /\ (raise_dispute_check(caller, id) # "Ok"
                      /\ raise_dispute(caller, id, "reason")) => UNCHANGED vars
                /\ (resolve_dispute_check(caller, id) # "Ok"
                      /\ resolve_dispute(caller, id, "resolution")) => UNCHANGED vars
                /\ emergency_override_check(caller, id) # "Ok"
                   => \A release_to_seller \in BOOLEAN :
                         emergency_override(caller, id, release_to_seller)
                             => UNCHANGED vars]_vars

\* An escrow with a document and an open dispute: verifying a hash that was
\* not uploaded returns DocumentNotFound and resolving by someone other than
\* the administrator returns Unauthorized.
C13_Witness ==
    \E id \in DOMAIN escrows :
        /\ dispute_unresolved(id)
        /\ Len(documents[id]) = 1
        /\ verify_document_check("alice", id, "h2") = "DocumentNotFound"
        /\ resolve_dispute_check("bob", id) = "Unauthorized"

\* C14: when the transfer is rejected during release_funds, refund_funds or
\* emergency_override (every other check of the message passes and the
\* contract does not hold the escrow's deposited_amount), the call returns
\* InsufficientFunds, and a call that returns InsufficientFunds leaves the
\* status, the audit log and all other state as they were.
C14_RejectedTransfer ==
    /\ [](\A id \in DOMAIN escrows :
            ~transfer_ok(escrows[id].deposited_amount) =>
                /\ ( /\ escrows[id].status = "Active"
                     /\ ~dispute_unresolved(id)
                     /\ TimeLockOpen(id)
                     /\ ConditionsMet(id)
                     /\ check_signature_threshold(id, "Release") )
                   => release_funds_check(id) = "InsufficientFunds"
                /\ ( /\ escrows[id].status \in {"Active", "Funded"}
                     /\ check_signature_threshold(id, "Refund") )
                   => refund_funds_check(id) = "InsufficientFunds"
                /\ emergency_override_check(admin, id) = "InsufficientFunds")
    /\ [][UNCHANGED vars \/ \A caller \in Accounts, id \in DOMAIN escrows :
            /\ (release_funds_check(id) = "InsufficientFunds"
                  /\ release_funds(caller, id)) => UNCHANGED vars
            /\ (refund_funds_check(id) = "InsufficientFunds"
                  /\ refund_funds(caller, id)) => UNCHANGED vars
            /\ \A release_to_seller \in BOOLEAN :
                  (emergency_override_check(caller, id) = "InsufficientFunds"
                        /\ emergency_override(caller, id, release_to_seller))
                      => UNCHANGED vars]_vars

\* The contract no longer holds the deposited_amount of an Active escrow whose
\* release is signed: its release and its override are rejected by the host.
C14_Witness ==
    \E id \in DOMAIN escrows :
        /\ escrows[id].status = "Active"
        /\ escrows[id].deposited_amount > balance
        /\ release_funds_check(id) = "InsufficientFunds"
        /\ emergency_override_check(admin, id) = "InsufficientFunds"

\* The configuration the claim C15 calls invalid.
InvalidConfig(participants, required_signatures) ==
    \/ required_signatures = 0
    \/ participants = <<>>
    \/ required_signatures > Len(participants)

\* C15: create_escrow_advanced returns InvalidConfiguration exactly when
\* required_signatures is 0, participants is empty or required_signatures
\* exceeds the number of participants, and Ok otherwise, whoever the caller,
\* the buyer and the seller are; a create that changes the state is one with
\* a valid configuration and allocates the next id.
C15_CreateFailsOnConfigOnly ==
    /\ [](\A args \in Open.creates :
            create_escrow_advanced_check(args.participants, args.required_signatures)
                = IF InvalidConfig(args.participants, args.required_signatures)
                  THEN "InvalidConfiguration" ELSE "Ok")
    /\ [][UNCHANGED vars \/ \A caller \in Accounts, args \in Open.creates :
            create_escrow_advanced(caller, args.amount, args.buyer, args.seller,
                args.participants, args.required_signatures, args.release_time_lock)
            => /\ ~InvalidConfig(args.participants, args.required_signatures)
               /\ escrow_count' = escrow_count + 1
               /\ DOMAIN escrows' = DOMAIN escrows \cup {escrow_count + 1}]_vars

\* Two escrows exist; one was created by an account that is neither its buyer
\* nor its seller, with every participant's signature required.
C15_Witness ==
    /\ escrow_count = 2
    /\ \E id \in DOMAIN escrows :
          /\ audit_logs[id][1].action = "EscrowCreated"
          /\ audit_logs[id][1].actor \notin {escrows[id].buyer, escrows[id].seller}
          /\ multi_sig_configs[id].required_signatures = 2
          /\ Len(multi_sig_configs[id].signers) = 2

\* C16: a successful create_escrow_advanced allocates the id that is the
\* number of escrows created before it plus one (1, 2, 3, ..., never reused);
\* the new escrow is Created with deposited_amount 0, empty document and
\* condition lists, the given participants as signers with the given
\* required_signatures, and an audit log of exactly one EscrowCreated entry;
\* the records of the existing escrows stay as they are, none is deleted.
C16_CreateAllocatesNextId ==
    /\ [](DOMAIN escrows = 1..escrow_count)
    /\ [][DOMAIN escrows \subseteq DOMAIN escrows']_vars
    /\ [][escrow_count' # escrow_count =>
            LET id == escrow_count'
            IN  /\ id = Cardinality(DOMAIN escrows) + 1
                /\ id \notin DOMAIN escrows
                /\ DOMAIN escrows' = DOMAIN escrows \cup {id}
                /\ \A old \in DOMAIN escrows : escrows'[old] = escrows[old]
                /\ escrows'[id].status = "Created"
                /\ escrows'[id].deposited_amount = 0
                /\ documents'[id] = <<>>
                /\ conditions'[id] = <<>>
                /\ audit_logs'[id] = <<[actor |-> audit_logs'[id][1].actor,
                                        action |-> "EscrowCreated"]>>
                /\ \E caller \in Accounts, args \in Open.creates :
                      /\ create_escrow_advanced(caller, args.amount, args.buyer,
                            args.seller, args.participants, args.required_signatures,
                            args.release_time_lock)
                      /\ audit_logs'[id][1].actor = caller
                      /\ escrows'[id].buyer = args.buyer
                      /\ escrows'[id].seller = args.seller
                      /\ escrows'[id].amount = args.amount
                      /\ multi_sig_configs'[id] =
                            [required_signatures |-> args.required_signatures,
                             signers |-> args.participants]]_vars

\* The second escrow has just been created next to a first one that holds a
\* deposit.
C16_Witness ==
    /\ escrow_count = 2
    /\ LastAction(2, "EscrowCreated")
    /\ escrows[2].status = "Created"
    /\ escrows[1].status = "Funded"
    /\ escrows[1].deposited_amount = 1

\* C17: deposit_funds succeeds exactly when the status of the escrow is
\* Created or Funded, and returns InvalidStatus otherwise; a deposit increases
\* deposited_amount (and the contract's balance) by exactly the transferred
\* value and sets the status to Active when the new deposited_amount reaches
\* the amount and to Funded otherwise; partial and over-funding deposits are
\* accepted.
C17_DepositRule ==
    /\ [](\A id \in DOMAIN escrows :
            deposit_funds_check(id) =
                IF escrows[id].status \in {"Created", "Funded"} THEN "Ok"
                ELSE "InvalidStatus")
    /\ [][\A id \in DOMAIN escrows :
            escrows'[id].deposited_amount # escrows[id].deposited_amount =>
                /\ escrows[id].status \in {"Created", "Funded"}
                /\ \E caller \in Accounts, v \in 1..MaxTransfer :
                      /\ deposit_funds(caller, id, v)
                      /\ escrows'[id].deposited_amount = escrows[id].deposited_amount + v
                      /\ balance' = balance + v
                /\ escrows'[id].status =
                      IF escrows'[id].deposited_amount >= escrows[id].amount
                      THEN "Active" ELSE "Funded"]_vars

\* A partial deposit followed by one that over-funds the escrow: it is Active
\* and holds more than the agreed amount.
C17_Witness ==
    \E id \in DOMAIN escrows :
        /\ LastAction(id, "FundsDeposited")
        /\ Len(audit_logs[id]) = 3
        /\ escrows[id].status = "Active"
        /\ escrows[id].deposited_amount > escrows[id].amount

\* C18: refund_funds on an existing escrow succeeds if and only if the status
\* is Active or Funded and the Refund count reaches required_signatures (and
\* the transfer is accepted); another status gives InvalidStatus, a count
\* below the threshold SignatureThresholdNotMet; unmet conditions and an
\* unexpired time-lock do not block it; a refund sets the status to Refunded.
C18_RefundRule ==
    /\ [](\A id \in DOMAIN escrows :
            refund_funds_check(id) =
                IF escrows[id].status \notin {"Active", "Funded"} THEN "InvalidStatus"
                ELSE IF get_signature_count(id, "Refund")
                            < multi_sig_configs[id].required_signatures
                     THEN "SignatureThresholdNotMet"
                ELSE IF balance < escrows[id].deposited_amount THEN "InsufficientFunds"
                ELSE "Ok")
    /\ [][\A id \in DOMAIN escrows, caller \in Accounts :
            ( /\ refund_funds_check(id) = "Ok"
              /\ refund_funds(caller, id) )
            => /\ escrows'[id].status = "Refunded"
               /\ LastAction(id, "FundsRefunded")']_vars

\* A refund has succeeded on an escrow whose time-lock has not expired and
\* whose condition is not met.
C18_Witness ==
    \E id \in DOMAIN escrows :
        /\ LastAction(id, "FundsRefunded")
        /\ escrows[id].status = "Refunded"
        /\ ~TimeLockOpen(id)
        /\ Len(conditions[id]) = 1
        /\ ~ConditionsMet(id)

\* C19: a successful release_funds transfers exactly the whole
\* deposited_amount of the escrow, any excess over the agreed amount included,
\* to the seller and to nobody else; a successful refund_funds transfers
\* exactly the whole deposited_amount to the buyer, whoever made the deposits.
C19_WholeCustodyMoves ==
    [][\A id \in DOMAIN escrows, caller \in Accounts :
            /\ (release_funds_check(id) = "Ok" /\ release_funds(caller, id))
                  => /\ transfers'[id] = Append(transfers[id],
                            [to |-> escrows[id].seller,
                             value |-> escrows[id].deposited_amount])
                     /\ balance' = balance - escrows[id].deposited_amount
                     /\ \A other \in DOMAIN transfers \ {id} :
                            transfers'[other] = transfers[other]
            /\ (refund_funds_check(id) = "Ok" /\ refund_funds(caller, id))
                  => /\ transfers'[id] = Append(transfers[id],
                            [to |-> escrows[id].buyer,
                             value |-> escrows[id].deposited_amount])
                     /\ balance' = balance - escrows[id].deposited_amount
                     /\ \A other \in DOMAIN transfers \ {id} :
                            transfers'[other] = transfers[other]]_vars

\* An escrow over-funded by deposits of an account other than its buyer has
\* been released: the seller received the whole deposited_amount, more than
\* the agreed amount, and the contract holds nothing.
C19_Witness ==
    \E id \in DOMAIN escrows :
        /\ LastAction(id, "FundsReleased")
        /\ escrows[id].deposited_amount > escrows[id].amount
        /\ transfers[id] = <<[to |-> escrows[id].seller,
                              value |-> escrows[id].deposited_amount]>>
        /\ \A i \in 1..Len(audit_logs[id]) :
              audit_logs[id][i].action = "FundsDeposited"
                  => audit_logs[id][i].actor # escrows[id].buyer
        /\ balance = 0

\* C20: resolve_dispute on a disputed escrow succeeds for the administrator
\* and returns Unauthorized for every other caller; when it succeeds the
\* dispute is resolved with the given resolution text, the status of the
\* escrow is Active, and the signature entries and counts are as before, so
\* the signatures collected before the dispute count toward a later release.
C20_ResolveKeepsSignatures ==
    /\ [](\A id \in DOMAIN disputes, caller \in Accounts :
            resolve_dispute_check(caller, id) =
                IF caller = admin THEN "Ok" ELSE "Unauthorized")
    /\ [][\A id \in DOMAIN disputes, caller \in Accounts :
            ( /\ resolve_dispute_check(caller, id) = "Ok"
              /\ resolve_dispute(caller, id, "resolution") )
            => /\ caller = admin
               /\ disputes'[id].resolved
               /\ disputes'[id].resolution = Some("resolution")
               /\ disputes'[id].raised_by = disputes[id].raised_by
               /\ escrows'[id].status = "Active"
               /\ signatures' = signatures
               /\ signature_counts' = signature_counts]_vars

\* A release signed before a dispute has succeeded after the dispute was
\* resolved, without a new signature.
C20_Witness ==
    \E id \in DOMAIN escrows :
        /\ Len(audit_logs[id]) = 6
        /\ audit_logs[id][3].action = "SignatureAdded"
        /\ audit_logs[id][4].action = "DisputeRaised"
        /\ audit_logs[id][5].action = "DisputeResolved"
        /\ audit_logs[id][6].action = "FundsReleased"
        /\ disputes[id].resolved
        /\ get_signature_count(id, "Release") = 1

\* C21: raise_dispute on an existing escrow returns Unauthorized for a caller
\* who is neither its buyer nor its seller, DisputeActive for the buyer or
\* seller while the escrow has an unresolved dispute, and succeeds otherwise;
\* when it succeeds the dispute of the escrow is unresolved and records the
\* caller and the reason, and the status is Disputed; a dispute that is not
\* resolved keeps its raiser and reason until it is resolved, so an escrow
\* never has more than the one unresolved dispute.
C21_RaiseDispute ==
    /\ [](\A id \in DOMAIN escrows, caller \in Accounts :
            raise_dispute_check(caller, id) =
                IF caller \notin {escrows[id].buyer, escrows[id].seller}
                THEN "Unauthorized"
                ELSE IF id \in DOMAIN disputes /\ ~disputes[id].resolved
                     THEN "DisputeActive"
                     ELSE "Ok")
    /\ [][UNCHANGED vars \/
          \A id \in DOMAIN escrows :
            /\ \A caller \in Accounts :
                 ( /\ raise_dispute_check(caller, id) = "Ok"
                   /\ raise_dispute(caller, id, "reason") )
                 => /\ id \in DOMAIN disputes'
                    /\ disputes'[id] = [raised_by |-> caller, reason |-> "reason",
                                        resolved |-> FALSE, resolution |-> None]
                    /\ escrows'[id].status = "Disputed"
            /\ (id \in DOMAIN disputes /\ ~disputes[id].resolved)
                 => /\ id \in DOMAIN disputes'
                    /\ disputes'[id].raised_by = disputes[id].raised_by
                    /\ disputes'[id].reason = disputes[id].reason]_vars

\* The seller has raised a dispute after an earlier dispute was resolved,
\* and the buyer's next dispute is rejected while it is open.
C21_Witness ==
    \E id \in DOMAIN disputes :
        /\ ~disputes[id].resolved
        /\ disputes[id].raised_by = escrows[id].seller
        /\ escrows[id].status = "Disputed"
        /\ \E i \in 1..Len(audit_logs[id]) :
              /\ audit_logs[id][i].action = "DisputeResolved"
              /\ i < Len(audit_logs[id])
        /\ LastAction(id, "DisputeRaised")
        /\ raise_dispute_check(escrows[id].buyer, id) = "DisputeActive"
        /\ raise_dispute_check(admin, id) = "Unauthorized"

\* C22: mark_condition_met is idempotent: on a condition that is already met
\* it succeeds and leaves the condition list of the escrow (met, verified_by
\* and verified_at of every condition) as it was after the first call, also
\* when the caller is another participant.
C22_MarkAgainIsNoOp ==
    /\ [](\A id \in DOMAIN conditions, caller \in Accounts :
            \A i \in 1..Len(conditions[id]) :
                ( /\ conditions[id][i].met
                  /\ Contains(escrows[id].participants, caller) )
                => mark_condition_met_check(caller, id, conditions[id][i].id) = "Ok")
    /\ [][UNCHANGED vars \/
          \A id \in DOMAIN conditions, caller \in Accounts :
            \A i \in 1..Len(conditions[id]) :
                ( /\ conditions[id][i].met
                  /\ mark_condition_met_check(caller, id, conditions[id][i].id) = "Ok"
                  /\ mark_condition_met(caller, id, conditions[id][i].id) )
                => conditions'[id] = conditions[id]]_vars

\* C23: add_condition on an existing escrow succeeds for its buyer and its
\* seller and returns Unauthorized for every other caller, participants
\* included; a success appends one unmet, unverified condition to the list of
\* that escrow and leaves the lists of the other escrows alone, and the id it
\* hands out is the position of the condition in the list: 1, 2, 3, ... in
\* call order for each escrow, whatever was added to other escrows.
C23_AddCondition ==
    /\ [](\A id \in DOMAIN escrows, caller \in Accounts :
            add_condition_check(caller, id) =
                IF caller \in {escrows[id].buyer, escrows[id].seller}
                THEN "Ok" ELSE "Unauthorized")
    /\ [](\A id \in DOMAIN conditions :
            \A i \in 1..Len(conditions[id]) : conditions[id][i].id = i)
    /\ [][UNCHANGED vars \/
          \A id \in DOMAIN escrows, caller \in Accounts :
            ( /\ add_condition_check(caller, id) = "Ok"
              /\ add_condition(caller, id) )
            => /\ id \in DOMAIN conditions'
               /\ conditions'[id] =
                     Append(GetOr(conditions, id, <<>>),
                            [id |-> Len(GetOr(conditions, id, <<>>)) + 1, met |-> FALSE,
                             verified_by |-> None, verified_at |-> None])
               /\ \A other \in DOMAIN conditions \ {id} :
                     conditions'[other] = conditions[other]]_vars

\* The first escrow has two conditions and the second, which has alice as a
\* participant who is neither buyer nor seller, has one: the ids are 1, 2
\* and 1, and alice may not add another.
C23_Witness ==
    /\ {1, 2} \subseteq DOMAIN conditions
    /\ Len(conditions[1]) = 2
    /\ Len(conditions[2]) = 1
    /\ conditions[1][2].id = 2
    /\ conditions[2][1].id = 1
    /\ Contains(escrows[2].participants, "alice")
    /\ add_condition_check("alice", 2) = "Unauthorized"
    /\ add_condition_check(escrows[2].seller, 2) = "Ok"

\* Hashes of the documents uploaded to the escrow.
Uploaded(escrow_id) ==
    {documents[escrow_id][i].hash : i \in 1..Len(GetOr(documents, escrow_id, <<>>))}

\* C24: upload_document on an existing escrow succeeds for its buyer, its
\* seller and its listed participants and returns Unauthorized for anyone
\* else; it appends an unverified document with the hash and the uploader.
\* verify_document returns Unauthorized for a caller who is not a listed
\* participant (a buyer or seller outside the list included), returns
\* DocumentNotFound to a participant for a hash that was never uploaded to
\* that escrow, and otherwise succeeds, changing nothing in the documents but
\* the verified flag of one document with that hash.
C24_Documents ==
    /\ [](\A id \in DOMAIN escrows, caller \in Accounts :
            /\ upload_document_check(caller, id) =
                  IF \/ caller \in {escrows[id].buyer, escrows[id].seller}
                     \/ \E k \in DOMAIN escrows[id].participants :
                           escrows[id].participants[k] = caller
                  THEN "Ok" ELSE "Unauthorized"
            /\ \A hash \in Hashes :
                  verify_document_check(caller, id, hash) =
                      IF ~\E k \in DOMAIN escrows[id].participants :
                             escrows[id].participants[k] = caller
                      THEN "Unauthorized"
                      ELSE IF hash \notin Uploaded(id) THEN "DocumentNotFound"
                      ELSE "Ok")
    /\ [][UNCHANGED vars \/
          \A id \in DOMAIN escrows, caller \in Accounts, hash \in Hashes :
            /\ ( /\ upload_document_check(caller, id) = "Ok"
                 /\ upload_document(caller, id, hash) )
               => /\ id \in DOMAIN documents'
                  /\ documents'[id] =
                        Append(GetOr(documents, id, <<>>),
                               [hash |-> hash, uploaded_by |-> caller, verified |-> FALSE])
            /\ ( /\ verify_document_check(caller, id, hash) = "Ok"
                 /\ verify_document(caller, id, hash) )
               => /\ DOMAIN documents' = DOMAIN documents
                  /\ \A other \in DOMAIN documents \ {id} :
                        documents'[other] = documents[other]
                  /\ Len(documents'[id]) = Len(documents[id])
                  /\ \E i \in 1..Len(documents[id]) :
                        /\ documents[id][i].hash = hash
                        /\ documents'[id] = [documents[id] EXCEPT ![i].verified = TRUE]]_vars

\* A participant has verified the document of one escrow; the other escrow
\* holds a document with another hash, so the first hash is not found there;
\* the seller, who is no participant, may upload but not verify, and a
\* stranger may not upload.
C24_Witness ==
    \E id, other \in DOMAIN documents :
        /\ id # other
        /\ Len(documents[id]) = 1 /\ documents[id][1].verified
        /\ LastAction(id, "DocumentVerified")
        /\ Len(documents[other]) = 1
        /\ documents[other][1].hash # documents[id][1].hash
        /\ verify_document_check("bob", other, documents[id][1].hash) = "DocumentNotFound"
        /\ upload_document_check("charlie", id) = "Ok"
        /\ verify_document_check("charlie", id, documents[id][1].hash) = "Unauthorized"
        /\ \E e \in {id, other} : upload_document_check("alice", e) = "Unauthorized"

\* This step appends one entry with the actor and the action tag to the log
\* of the escrow and leaves every other log as it is.
Appended(escrow_id, actor, action) ==
    /\ DOMAIN audit_logs' = DOMAIN audit_logs \cup {escrow_id}
    /\ audit_logs'[escrow_id] =
          Append(GetOr(audit_logs, escrow_id, <<>>), [actor |-> actor, action |-> action])
    /\ \A other \in DOMAIN audit_logs \ {escrow_id} :
          audit_logs'[other] = audit_logs[other]

\* The storage of the escrows (everything but the administrator and the
\* clock).
EscrowState ==
    <<escrows, escrow_count, multi_sig_configs, signatures, signature_counts,
      documents, conditions, condition_counters, disputes, balance, transfers>>

\* C25: every successful message on an escrow appends exactly one entry to
\* the audit log of that escrow, with the caller as actor and the action tag
\* of the message; logs only grow at the end (no entry is changed, moved or
\* removed, no other log is touched), and a step that appends nothing has
\* changed nothing of the escrows.
C25_AuditTrail ==
    [][UNCHANGED vars \/
       /\ \/ audit_logs' = audit_logs /\ UNCHANGED EscrowState
          \/ \E id \in 1..(escrow_count + 1), caller \in Accounts :
                \E action \in {"EscrowCreated", "FundsDeposited", "FundsReleased",
                               "FundsRefunded", "DocumentUploaded", "DocumentVerified",
                               "ConditionAdded", "ConditionMet", "SignatureAdded",
                               "DisputeRaised", "DisputeResolved", "EmergencyOverride"} :
                    Appended(id, caller, action)
       /\ \A caller \in Accounts :
            /\ \A args \in Trail.creates :
                 ( /\ create_escrow_advanced_check(args.participants,
                                                   args.required_signatures) = "Ok"
                   /\ create_escrow_advanced(caller, args.amount, args.buyer, args.seller,
                          args.participants, args.required_signatures,
                          args.release_time_lock) )
                 => Appended(escrow_count + 1, caller, "EscrowCreated")
            /\ \A id \in DOMAIN escrows :
                 /\ (deposit_funds_check(id) = "Ok" /\ deposit_funds(caller, id, MaxTransfer))
                      => Appended(id, caller, "FundsDeposited")
                 /\ (release_funds_check(id) = "Ok" /\ release_funds(caller, id))
                      => Appended(id, caller, "FundsReleased")
                 /\ (refund_funds_check(id) = "Ok" /\ refund_funds(caller, id))
                      => Appended(id, caller, "FundsRefunded")
                 /\ ( /\ upload_document_check(caller, id) = "Ok"
                      /\ upload_document(caller, id, "h1") )
                      => Appended(id, caller, "DocumentUploaded")
                 /\ ( /\ verify_document_check(caller, id, "h1") = "Ok"
                      /\ verify_document(caller, id, "h1") )
                      => Appended(id, caller, "DocumentVerified")
                 /\ (add_condition_check(caller, id) = "Ok" /\ add_condition(caller, id))
                      => Appended(id, caller, "ConditionAdded")
                 /\ ( /\ mark_condition_met_check(caller, id, 1) = "Ok"
                      /\ mark_condition_met(caller, id, 1) )
                      => Appended(id, caller, "ConditionMet")
                 /\ \A type \in {"Release", "Refund"} :
                      ( /\ sign_approval_check(caller, id, type) = "Ok"
                        /\ sign_approval(caller, id, type) )
                      => Appended(id, caller, "SignatureAdded")
                 /\ ( /\ raise_dispute_check(caller, id) = "Ok"
                      /\ raise_dispute(caller, id, "reason") )
                      => Appended(id, caller, "DisputeRaised")
                 /\ ( /\ resolve_dispute_check(caller, id) = "Ok"
                      /\ resolve_dispute(caller, id, "resolution") )
                      => Appended(id, caller, "DisputeResolved")
                 /\ \A release_to_seller \in BOOLEAN :
                      ( /\ emergency_override_check(caller, id) = "Ok"
                        /\ emergency_override(caller, id, release_to_seller) )
                      => Appended(id, caller, "EmergencyOverride")]_vars

\* An escrow was created and funded by the buyer, signed by alice and released
\* by the buyer: four entries in call order, each with its caller and tag.
C25_Witness ==
    /\ 1 \in DOMAIN audit_logs
    /\ audit_logs[1] = <<[actor |-> "bob", action |-> "EscrowCreated"],
                         [actor |-> "bob", action |-> "FundsDeposited"],
                         [actor |-> "alice", action |-> "SignatureAdded"],
                         [actor |-> "bob", action |-> "FundsReleased"]>>
    /\ escrows[1].status = "Released"

\* This step emits exactly one event: this one, with this escrow_id.
Emitted(event, escrow_id) ==
    LET e == [event |-> event, escrow_id |-> escrow_id]
    IN  /\ DOMAIN events' = DOMAIN events \cup {e}
        /\ events'[e] = GetOr(events, e, 0) + 1
        /\ \A other \in DOMAIN events \ {e} : events'[other] = events[other]

\* C26: each successful call of create_escrow_advanced, deposit_funds,
\* release_funds, refund_funds, upload_document, verify_document,
\* add_condition, mark_condition_met, sign_approval, raise_dispute,
\* resolve_dispute and emergency_override emits exactly one event, the event
\* of that message, and the event carries the id of the escrow the call
\* acted on (for a creation, the new id).
C26_OneEventPerCall ==
    [][UNCHANGED vars \/
       \A caller \in Accounts :
            /\ \A args \in Trail.creates :
                 ( /\ create_escrow_advanced_check(args.participants,
                                                   args.required_signatures) = "Ok"
                   /\ create_escrow_advanced(caller, args.amount, args.buyer, args.seller,
                          args.participants, args.required_signatures,
                          args.release_time_lock) )
                 => Emitted("EscrowCreated", escrow_count')
            /\ \A id \in DOMAIN escrows :
                 /\ (deposit_funds_check(id) = "Ok" /\ deposit_funds(caller, id, MaxTransfer))
                      => Emitted("FundsDeposited", id)
                 /\ (release_funds_check(id) = "Ok" /\ release_funds(caller, id))
                      => Emitted("FundsReleased", id)
                 /\ (refund_funds_check(id) = "Ok" /\ refund_funds(caller, id))
                      => Emitted("FundsRefunded", id)
                 /\ ( /\ upload_document_check(caller, id) = "Ok"
                      /\ upload_document(caller, id, "h1") )
                      => Emitted("DocumentUploaded", id)
                 /\ ( /\ verify_document_check(caller, id, "h1") = "Ok"
                      /\ verify_document(caller, id, "h1") )
                      => Emitted("DocumentVerified", id)
                 /\ (add_condition_check(caller, id) = "Ok" /\ add_condition(caller, id))
                      => Emitted("ConditionAdded", id)
                 /\ ( /\ mark_condition_met_check(caller, id, 1) = "Ok"
                      /\ mark_condition_met(caller, id, 1) )
                      => Emitted("ConditionMet", id)
                 /\ \A type \in {"Release", "Refund"} :
                      ( /\ sign_approval_check(caller, id, type) = "Ok"
                        /\ sign_approval(caller, id, type) )
                      => Emitted("SignatureAdded", id)
                 /\ ( /\ raise_dispute_check(caller, id) = "Ok"
                      /\ raise_dispute(caller, id, "reason") )
                      => Emitted("DisputeRaised", id)
                 /\ ( /\ resolve_dispute_check(caller, id) = "Ok"
                      /\ resolve_dispute(caller, id, "resolution") )
                      => Emitted("DisputeResolved", id)
                 /\ \A release_to_seller \in BOOLEAN :
                      ( /\ emergency_override_check(caller, id) = "Ok"
                        /\ emergency_override(caller, id, release_to_seller) )
                      => Emitted("EmergencyOverride", id)]_vars

\* Two signatures on the second escrow have each emitted SignatureAdded with
\* its id, after the creation of both escrows emitted EscrowCreated with
\* theirs.
C26_Witness ==
    /\ escrow_count = 2
    /\ events = ( [event |-> "EscrowCreated", escrow_id |-> 1] :> 1
               @@ [event |-> "EscrowCreated", escrow_id |-> 2] :> 1
               @@ [event |-> "SignatureAdded", escrow_id |-> 2] :> 2 )
    /\ Len(audit_logs[2]) = 3

\* C27: the MultiSigConfig of an escrow is created with the escrow and never
\* changes afterwards, whatever message is called by whichever caller, the
\* administrator included; the buyer, seller, agreed amount, time-lock and
\* participants of the escrow never change either.
C27_ConfigImmutable ==
    /\ [](DOMAIN multi_sig_configs = DOMAIN escrows)
    /\ [][UNCHANGED vars \/
          \A id \in DOMAIN escrows :
            /\ id \in DOMAIN escrows' /\ id \in DOMAIN multi_sig_configs'
            /\ multi_sig_configs'[id] = multi_sig_configs[id]
            /\ escrows'[id].buyer = escrows[id].buyer
            /\ escrows'[id].seller = escrows[id].seller
            /\ escrows'[id].amount = escrows[id].amount
            /\ escrows'[id].release_time_lock = escrows[id].release_time_lock
            /\ escrows'[id].participants = escrows[id].participants]_vars

\* The administrator has handed over to bob, who has overridden a disputed
\* escrow: its configuration and parties are those it was created with.
C27_Witness ==
    /\ admin = "bob"
    /\ 1 \in DOMAIN escrows
    /\ LastAction(1, "EmergencyOverride")
    /\ audit_logs[1][Len(audit_logs[1])].actor = "bob"
    /\ 1 \in DOMAIN disputes
    /\ multi_sig_configs[1] = [required_signatures |-> 1, signers |-> <<"alice", "bob">>]
    /\ escrows[1].buyer = "bob" /\ escrows[1].seller = "charlie"
    /\ escrows[1].amount = MaxTransfer
    /\ escrows[1].participants = <<"alice", "bob">>

\* The account passes the administrator check of set_admin, and of
\* resolve_dispute and emergency_override on every escrow.
Authorized(account) ==
    /\ set_admin_check(account) = "Ok"
    /\ \A id \in AnyId :
          /\ resolve_dispute_check(account, id) # "Unauthorized"
          /\ emergency_override_check(account, id) # "Unauthorized"

\* The account fails the administrator check of all three messages.
Rejected(account) ==
    /\ set_admin_check(account) = "Unauthorized"
    /\ \A id \in AnyId :
          /\ resolve_dispute_check(account, id) = "Unauthorized"
          /\ emergency_override_check(account, id) = "Unauthorized"

\* C28: the first administrator is the deployer; at any time the
\* administrator (get_admin) is the one account that resolve_dispute,
\* emergency_override and set_admin accept, and every other account gets
\* Unauthorized from them; set_admin called by the administrator makes the
\* given account the administrator, so that the given account is accepted
\* from then on and every other account, the previous administrator
\* included, is rejected; the administrator changes in no other way.
C28_SetAdmin ==
    /\ admin = Deployer
    /\ [](\A account \in Accounts :
            IF account = admin THEN Authorized(account) ELSE Rejected(account))
    /\ [][UNCHANGED vars \/
          /\ \A caller, new_admin \in Accounts :
                (set_admin_check(caller) = "Ok" /\ set_admin(caller, new_admin))
                => /\ caller = admin
                   /\ admin' = new_admin
                   /\ Authorized(new_admin)'
                   /\ \A account \in Accounts \ {new_admin} : Rejected(account)'
          /\ admin' # admin
                => \E new_admin \in Accounts :
                      /\ set_admin_check(admin) = "Ok"
                      /\ set_admin(admin, new_admin)]_vars

\* The deployer has handed over to bob, and bob has resolved a dispute as
\* the administrator; the deployer is rejected.
C28_Witness ==
    /\ admin = "bob" /\ Deployer # "bob"
    /\ LastAction(1, "DisputeResolved")
    /\ audit_logs[1][Len(audit_logs[1])].actor = "bob"
    /\ Rejected(Deployer)
    /\ Authorized("bob")

\* The preconditions of release_funds that the escrow violates, in the order
\* status, dispute, time-lock, conditions, Release signatures.
ReleaseViolations(escrow_id) ==
    <<escrows[escrow_id].status # "Active",
      escrow_id \in DOMAIN disputes /\ ~disputes[escrow_id].resolved,
      ~TimeLockOpen(escrow_id),
      ~ConditionsMet(escrow_id),
      Cardinality({sig \in signatures : sig[1] = escrow_id /\ sig[2] = "Release"})
          < multi_sig_configs[escrow_id].required_signatures>>

ReleaseErrors ==
    <<"InvalidStatus", "DisputeActive", "TimeLockActive", "ConditionsNotMet",
      "SignatureThresholdNotMet">>

C30_SignaturesStay ==
    [][UNCHANGED vars \/
       /\ signatures \subseteq signatures'
       /\ \A key \in DOMAIN signature_counts :
             /\ key \in DOMAIN signature_counts'
             /\ signature_counts'[key] >= signature_counts[key]]_vars

\* A Release signature given before a dispute is still recorded, and still
\* counted, after the dispute was raised and the administrator has
\* overridden the escrow.
C30_Witness ==
    /\ <<1, "Release", "alice">> \in signatures
    /\ <<1, "Release">> \in DOMAIN signature_counts
    /\ signature_counts[<<1, "Release">>] = 1
    /\ Len(audit_logs[1]) = 4
    /\ audit_logs[1][2].action = "SignatureAdded"
    /\ audit_logs[1][3].action = "DisputeRaised"
    /\ audit_logs[1][4].action = "EmergencyOverride"

Unmet(escrow_id) ==
    {i \in 1..Len(GetOr(conditions, escrow_id, <<>>)) : ~conditions[escrow_id][i].met}

\* C32: check_all_conditions_met answers true exactly when the condition
\* list of the escrow holds no unmet condition, so true for an empty list
\* (and for an id without a list), and false as long as one added condition
\* is not marked met, whatever the other conditions are.
C32_AllConditionsMet ==
    /\ \A id \in AnyId : check_all_conditions_met(id) = (Unmet(id) = {})
    /\ \A id \in DOMAIN conditions :
          /\ conditions[id] = <<>> => check_all_conditions_met(id)
          /\ (\E i \in 1..Len(conditions[id]) : conditions[id][i].verified_by = None)
                => ~check_all_conditions_met(id)

\* Of two conditions one is marked met: the answer is false; the other
\* escrow has no condition: the answer is true.
C32_Witness ==
    \E id, other \in DOMAIN conditions :
        /\ Len(conditions[id]) = 2
        /\ Cardinality(Unmet(id)) = 1
        /\ LastAction(id, "ConditionMet")
        /\ ~check_all_conditions_met(id)
        /\ conditions[other] = <<>>
        /\ check_all_conditions_met(other)

\* The accounts in the signers list of the escrow.
Signers(escrow_id) ==
    {multi_sig_configs[escrow_id].signers[k] :
        k \in DOMAIN multi_sig_configs[escrow_id].signers}

\* C33: sign_approval on an existing escrow answers Unauthorized to every
\* caller who is not in its signers list, buyer, seller and administrator
\* included, and accepts the first signature of a signer for an approval
\* type; that signature is recorded and raises the count of that type by
\* exactly one.
C33_SignApproval ==
    /\ [](\A id \in DOMAIN escrows, caller \in Accounts, type \in ApprovalType :
            sign_approval_check(caller, id, type) =
                IF caller \notin Signers(id) THEN "Unauthorized"
                ELSE IF <<id, type, caller>> \in signatures THEN "AlreadySigned"
                ELSE "Ok")
    /\ [][UNCHANGED vars \/
          \A id \in DOMAIN escrows, caller \in Accounts, type \in ApprovalType :
            ( /\ sign_approval_check(caller, id, type) = "Ok"
              /\ sign_approval(caller, id, type) )
            => /\ caller \in Signers(id)
               /\ <<id, type, caller>> \notin signatures
               /\ signatures' = signatures \cup {<<id, type, caller>>}
               /\ <<id, type>> \in DOMAIN signature_counts'
               /\ signature_counts'[<<id, type>>] = get_signature_count(id, type) + 1]_vars

\* The buyer is the only signer and has signed the release: the count is one,
\* and the seller and the administrator, who are no signers, are refused.
C33_Witness ==
    \E id \in DOMAIN escrows :
        /\ Signers(id) = {escrows[id].buyer}
        /\ admin \notin Signers(id)
        /\ <<id, "Release", escrows[id].buyer>> \in signatures
        /\ get_signature_count(id, "Release") = 1
        /\ sign_approval_check(escrows[id].seller, id, "Release") = "Unauthorized"
        /\ sign_approval_check(admin, id, "Release") = "Unauthorized"

\* C34: an escrow whose dispute is not resolved has status Disputed, Released
\* or Refunded, never Created, Funded or Active; release_funds refuses it,
\* and no release happens while the dispute of the escrow is unresolved.
C34_OpenDisputeStatus ==
    /\ [](\A id \in DOMAIN disputes :
            ~disputes[id].resolved
            => /\ id \in DOMAIN escrows
               /\ escrows[id].status \in {"Disputed", "Released", "Refunded"}
               /\ release_funds_check(id) = "InvalidStatus")
    /\ [][UNCHANGED vars \/
          \A id \in DOMAIN escrows, caller \in Accounts :
            (release_funds_check(id) = "Ok" /\ release_funds(caller, id))
            => (id \in DOMAIN disputes => disputes[id].resolved)]_vars

\* One escrow is Disputed; the other was overridden by the administrator
\* while its dispute was open, which still is: its status is Released.
C34_Witness ==
    \E id, other \in DOMAIN disputes :
        /\ ~disputes[id].resolved /\ escrows[id].status = "Disputed"
        /\ ~disputes[other].resolved /\ escrows[other].status = "Released"
        /\ LastAction(other, "EmergencyOverride")

\* Sum of deposited_amount over the escrows 1..n that are neither Released
\* nor Refunded.
RECURSIVE HeldUpTo(_)
HeldUpTo(n) ==
    IF n = 0 THEN 0
    ELSE HeldUpTo(n - 1)
           + (IF n \in DOMAIN escrows /\ escrows[n].status \notin Terminal
              THEN escrows[n].deposited_amount ELSE 0)

\* C35: solvency: the balance of the contract equals the sum of
\* deposited_amount over the escrows whose status is neither Released nor
\* Refunded (the contract starts empty and receives value through
\* deposit_funds only).
C35_Solvency == balance = HeldUpTo(escrow_count)

\* C36: while the status of an escrow is Disputed, its dispute is open,
\* deposit_funds, release_funds and refund_funds answer InvalidStatus,
\* raise_dispute answers DisputeActive to its buyer and seller (Unauthorized
\* to anyone else), and resolve_dispute and emergency_override answer
\* Unauthorized to everyone but the administrator; the status leaves
\* Disputed only in a resolve_dispute or an emergency_override of the
\* administrator.
C36_DisputedIsFrozen ==
    /\ [](\A id \in DOMAIN escrows :
            escrows[id].status = "Disputed"
            => /\ dispute_unresolved(id)
               /\ deposit_funds_check(id) = "InvalidStatus"
               /\ release_funds_check(id) = "InvalidStatus"
               /\ refund_funds_check(id) = "InvalidStatus"
               /\ \A caller \in Accounts :
                     /\ raise_dispute_check(caller, id) =
                           IF caller \in {escrows[id].buyer, escrows[id].seller}
                           THEN "DisputeActive" ELSE "Unauthorized"
                     /\ caller # admin
                           => /\ resolve_dispute_check(caller, id) = "Unauthorized"
                              /\ emergency_override_check(caller, id) = "Unauthorized")
    /\ [][UNCHANGED vars \/
          \A id \in DOMAIN escrows :
            (escrows[id].status = "Disputed" /\ escrows'[id].status # "Disputed")
            => /\ audit_logs'[id] =
                     Append(audit_logs[id],
                            [actor |-> admin,
                             action |-> IF escrows'[id].status = "Active"
                                        THEN "DisputeResolved" ELSE "EmergencyOverride"])
               /\ escrows'[id].status \in {"Active", "Released", "Refunded"}]_vars

\* A funded escrow is Disputed on the buyer's dispute, and bob, the buyer, is
\* not the administrator.
C36_Witness ==
    \E id \in DOMAIN escrows :
        /\ escrows[id].status = "Disputed"
        /\ escrows[id].deposited_amount = escrows[id].amount
        /\ disputes[id].raised_by = escrows[id].buyer
        /\ admin # escrows[id].buyer
        /\ resolve_dispute_check(escrows[id].buyer, id) = "Unauthorized"
        /\ raise_dispute_check(escrows[id].seller, id) = "DisputeActive"

\* C37: the required_signatures of an escrow is at most the number of
\* distinct accounts in its signers list, so the signers can reach the
\* threshold by signing once each.
C37_ThresholdReachable ==
    \A id \in DOMAIN multi_sig_configs :
        multi_sig_configs[id].required_signatures <= Cardinality(Signers(id))

\* Number of signature entries of the escrow for the approval type.
Signed(escrow_id, approval_type) ==
    Cardinality({sig \in signatures : sig[1] = escrow_id /\ sig[2] = approval_type})

\* C38: the approval types are independent: a successful sign_approval of
\* type t adds the caller's entry of type t and one to the count of type t
\* and changes no entry or count of another type; the Release threshold is
\* judged on Release signatures alone and the Refund threshold on Refund
\* signatures alone, so a signature of another type leaves the answer of
\* release_funds, respectively refund_funds, as it was, and an
\* EmergencyOverride signature leaves the answer of deposit_funds,
\* release_funds, refund_funds and emergency_override as it was.
C38_ApprovalTypesIndependent ==
    /\ [](\A id \in DOMAIN escrows :
            /\ check_signature_threshold(id, "Release")
                  = (Signed(id, "Release") >= multi_sig_configs[id].required_signatures)
            /\ check_signature_threshold(id, "Refund")
                  = (Signed(id, "Refund") >= multi_sig_configs[id].required_signatures))
    /\ [][UNCHANGED vars \/
          \A id \in DOMAIN escrows, caller \in Accounts, type \in ApprovalType :
            ( /\ sign_approval_check(caller, id, type) = "Ok"
              /\ sign_approval(caller, id, type) )
            => /\ signatures' = signatures \cup {<<id, type, caller>>}
               /\ \A other \in ApprovalType \ {type} :
                     get_signature_count(id, other)' = get_signature_count(id, other)
               /\ get_signature_count(id, type)' = get_signature_count(id, type) + 1
               /\ type # "Release" => release_funds_check(id)' = release_funds_check(id)
               /\ type # "Refund" => refund_funds_check(id)' = refund_funds_check(id)
               /\ type = "EmergencyOverride"
                     => /\ deposit_funds_check(id)' = deposit_funds_check(id)
                        /\ \A account \in Accounts :
                              emergency_override_check(account, id)'
                                  = emergency_override_check(account, id)]_vars

\* A funded escrow has its Release signature and an EmergencyOverride
\* signature: the release is open, the refund still lacks its signatures.
C38_Witness ==
    \E id \in DOMAIN escrows :
        /\ escrows[id].status = "Active"
        /\ Signed(id, "Release") >= 1
        /\ Signed(id, "EmergencyOverride") >= 1
        /\ Signed(id, "Refund") = 0
        /\ release_funds_check(id) = "Ok"
        /\ refund_funds_check(id) = "SignatureThresholdNotMet"

\* Everything the storage holds for the escrow.
Own(escrow_id) ==
    <<GetOr(escrows, escrow_id, None), GetOr(multi_sig_configs, escrow_id, None),
      {sig \in signatures : sig[1] = escrow_id},
      [type \in ApprovalType |-> get_signature_count(escrow_id, type)],
      GetOr(documents, escrow_id, None), GetOr(conditions, escrow_id, None),
      GetOr(condition_counters, escrow_id, None), GetOr(disputes, escrow_id, None),
      GetOr(audit_logs, escrow_id, None)>>

\* The answer of every message addressed to the escrow, for every caller.
Outcomes(escrow_id) ==
    <<deposit_funds_check(escrow_id), release_funds_check(escrow_id),
      refund_funds_check(escrow_id),
      [caller \in Accounts |->
          <<raise_dispute_check(caller, escrow_id),
            resolve_dispute_check(caller, escrow_id),
            emergency_override_check(caller, escrow_id),
            [type \in ApprovalType |-> sign_approval_check(caller, escrow_id, type)]>>]>>

\* C39: escrows are isolated: a step leaves everything the storage holds for
\* an escrow unchanged unless it appends to the audit log of that escrow
\* (it is a successful message addressed to it), and a message addressed to
\* another escrow leaves the answer of every message addressed to this one
\* as it was.
C39_Isolated ==
    [][UNCHANGED vars \/
       \A id \in DOMAIN escrows :
          /\ GetOr(audit_logs, id, None)' = GetOr(audit_logs, id, None)
                => Own(id)' = Own(id)
          /\ (Own(id)' = Own(id) /\ admin' = admin /\ now' = now)
                => Outcomes(id)' = Outcomes(id)]_vars

\* C40: the status Cancelled is unreachable: in every reachable state the
\* status of every escrow is one of Created, Funded, Active, Disputed,
\* Released and Refunded.
C40_NeverCancelled ==
    \A id \in DOMAIN escrows :
       escrows[id].status \in {"Created", "Funded", "Active", "Disputed", "Released", "Refunded"}

\* An escrow was partly funded, which made it Funded, and was then returned
\* to the buyer by an emergency override: the two writes that pick between
\* two statuses have both acted.
C40_Witness ==
    \E id \in DOMAIN escrows :
       /\ 0 < escrows[id].deposited_amount
       /\ escrows[id].deposited_amount < escrows[id].amount
       /\ escrows[id].status = "Refunded"
       /\ LastAction(id, "EmergencyOverride")

====
